---- MODULE Spec2Model ----
(***************************************************************************)
(* FinanBot (asesor_financiero): the safety-filtering and context-assembly *)
(* pipeline of src/app.py, src/security.py and src/bcrp_api.py.            *)
(*                                                                         *)
(* A text is a sequence of one-character strings, so that the regular      *)
(* expressions and substring tests of the code are computed character by   *)
(* character, as Python's re and str do.                                   *)
(***************************************************************************)
EXTENDS Naturals, Sequences, FiniteSets, TLC

(***************************************************************************)
(* Character classes of Python's re on str (\d, \w, \s, \b) and str.lower, *)
(* restricted to the alphabet the model's texts are written in.            *)
(***************************************************************************)
Digits == {"0", "1", "2", "3", "4", "5", "6", "7", "8", "9"}

LowerLetters ==
    {"a", "b", "c", "d", "e", "f", "g", "h", "i", "j", "k", "l", "m", "n",
     "o", "p", "q", "r", "s", "t", "u", "v", "w", "x", "y", "z",
     "á", "é", "í", "ó", "ú", "ñ", "ü"}

UpperSeq ==
    <<"A", "B", "C", "D", "E", "F", "G", "H", "I", "J", "K", "L", "M", "N",
      "O", "P", "Q", "R", "S", "T", "U", "V", "W", "X", "Y", "Z",
      "Á", "É", "Í", "Ó", "Ú", "Ñ", "Ü">>

LowerSeq ==
    <<"a", "b", "c", "d", "e", "f", "g", "h", "i", "j", "k", "l", "m", "n",
      "o", "p", "q", "r", "s", "t", "u", "v", "w", "x", "y", "z",
      "á", "é", "í", "ó", "ú", "ñ", "ü">>

UpperLetters == {UpperSeq[i] : i \in 1..Len(UpperSeq)}

IsDigit(c) == c \in Digits

WordChars == Digits \cup LowerLetters \cup UpperLetters \cup {"_"}

IsWord(c) == c \in WordChars

SpaceChars == {" ", "\t", "\n", "\r", "\f"}

IsSpace(c) == c \in SpaceChars

\* str.lower() on one character
LowerChar(c) ==
    IF c \in UpperLetters
    THEN LowerSeq[CHOOSE i \in 1..Len(UpperSeq) : UpperSeq[i] = c]
    ELSE c

\* str.lower()
Lower(s) == [i \in 1..Len(s) |-> LowerChar(s[i])]

\* s[i] is a word character (positions outside the text are not)
WordAt(s, i) == i >= 1 /\ i <= Len(s) /\ IsWord(s[i])

\* \b between s[i-1] and s[i]
Bnd(s, i) == WordAt(s, i - 1) # WordAt(s, i)

\* the literal lit occurs in s starting at position i (case-sensitive)
LitAt(s, i, lit) ==
    /\ i >= 1
    /\ i + Len(lit) - 1 <= Len(s)
    /\ \A k \in 1..Len(lit) : s[i + k - 1] = lit[k]

\* Python's  sub in s
Contains(s, sub) == \E i \in 1..(Len(s) + 1) : LitAt(s, i, sub)

\* the number of consecutive digits of s from position i on, at most max
RECURSIVE DigitRun(_, _, _)
DigitRun(s, i, max) ==
    IF max = 0 \/ i > Len(s) \/ ~IsDigit(s[i]) THEN 0
    ELSE 1 + DigitRun(s, i + 1, max - 1)

\* the first position at or after i that is past a run of characters of cls
RECURSIVE SkipSet(_, _, _)
SkipSet(s, i, cls) ==
    IF i <= Len(s) /\ s[i] \in cls THEN SkipSet(s, i + 1, cls) ELSE i

(***************************************************************************)
(* security.sanitize_financial_data: three re.sub passes, in this order.   *)
(* re.sub replaces the leftmost non-overlapping matches: it tries the      *)
(* pattern at each position from the left and, after a match, goes on from *)
(* the end of the match.                                                   *)
(***************************************************************************)
TARJETA_OCULTA == <<"[", "T", "A", "R", "J", "E", "T", "A", "-", "O", "C", "U", "L", "T", "A", "]">>

CUENTA_OCULTA == <<"[", "C", "U", "E", "N", "T", "A", "-", "O", "C", "U", "L", "T", "A", "]">>

OCULTO_SUFFIX == <<":", " ", "[", "O", "C", "U", "L", "T", "O", "]">>

\* the labels of the CVV pattern, in the order of the alternation
CvvLabels == <<<<"c", "v", "v">>,
               <<"c", "ó", "d", "i", "g", "o">>,
               <<"c", "o", "d", "e">>,
               <<"c", "v", "c">>>>

\* \d{4} at position i
D4(s, i) == DigitRun(s, i, 4) = 4

\* a variant of OptSep that accepts no separator between the blocks; C10 does
\* not hold of it
OptSep_none(s, i) == i

\* [\s-]? at position i (greedy; the \d that follows admits no other choice)
OptSep(s, i) ==
    IF i <= Len(s) /\ (IsSpace(s[i]) \/ s[i] = "-") THEN i + 1 ELSE i

\* \b\d{4}[\s-]?\d{4}[\s-]?\d{4}[\s-]?\d{4}\b matched at position i:
\* the position after the match, or 0 when there is no match at i
CardEnd(s, i) ==
    LET b == OptSep(s, i + 4)
        c == OptSep(s, b + 4)
        d == OptSep(s, c + 4)
    IN  IF /\ Bnd(s, i)
           /\ D4(s, i) /\ D4(s, b) /\ D4(s, c) /\ D4(s, d)
           /\ Bnd(s, d + 4)
        THEN d + 4 ELSE 0

\* \b\d{10,20}\b matched at position i: the position after the match, or 0
AccountEnd(s, i) ==
    LET n == DigitRun(s, i, 20)
    IN  IF Bnd(s, i) /\ n >= 10 /\ Bnd(s, i + n) THEN i + n ELSE 0

\* the label (cvv|código|code|cvc), ignoring case, at position i: its length, or 0
CvvLabelLen(s, i) ==
    LET hits == {k \in 1..Len(CvvLabels) :
                    /\ i + Len(CvvLabels[k]) - 1 <= Len(s)
                    /\ \A j \in 1..Len(CvvLabels[k]) :
                          LowerChar(s[i + j - 1]) = CvvLabels[k][j]}
    IN  IF hits = {} THEN 0
        ELSE Len(CvvLabels[CHOOSE k \in hits : \A h \in hits : k <= h])

\* (cvv|código|code|cvc)[\s:]+\d{3,4} matched at position i, ignoring case:
\* the position after the match, or 0
CvvEnd(s, i) ==
    LET l == CvvLabelLen(s, i)
        j == SkipSet(s, i + l, SpaceChars \cup {":"})
        n == DigitRun(s, j, 4)
    IN  IF l > 0 /\ j > i + l /\ n >= 3 THEN j + n ELSE 0

RECURSIVE SubCard(_, _)
SubCard(s, i) ==
    LET starts == {j \in i..Len(s) : CardEnd(s, j) > 0}
        j == CHOOSE j \in starts : \A h \in starts : j <= h
    IN  IF starts = {} THEN SubSeq(s, i, Len(s))
        ELSE SubSeq(s, i, j - 1) \o TARJETA_OCULTA \o SubCard(s, CardEnd(s, j))

RECURSIVE SubAccount(_, _)
SubAccount(s, i) ==
    LET starts == {j \in i..Len(s) : AccountEnd(s, j) > 0}
        j == CHOOSE j \in starts : \A h \in starts : j <= h
    IN  IF starts = {} THEN SubSeq(s, i, Len(s))
        ELSE SubSeq(s, i, j - 1) \o CUENTA_OCULTA \o SubAccount(s, AccountEnd(s, j))

\* the replacement is r'\1: [OCULTO]': the label as written, then ": [OCULTO]"
RECURSIVE SubCvv(_, _)
SubCvv(s, i) ==
    LET starts == {j \in i..Len(s) : CvvEnd(s, j) > 0}
        j == CHOOSE j \in starts : \A h \in starts : j <= h
    IN  IF starts = {} THEN SubSeq(s, i, Len(s))
        ELSE SubSeq(s, i, j - 1)
                 \o SubSeq(s, j, j + CvvLabelLen(s, j) - 1) \o OCULTO_SUFFIX
                 \o SubCvv(s, CvvEnd(s, j))

\* a variant of sanitize_financial_data that applies the account rule before
\* the card rule; C21 does not hold of it
sanitize_account_first(text) ==
    SubCvv(SubCard(SubAccount(text, 1), 1), 1)

sanitize_financial_data(text) ==
    SubCvv(SubAccount(SubCard(text, 1), 1), 1)

(***************************************************************************)
(* The rule sets of security.py.  A pattern is kept with its source text   *)
(* (what check_input returns as detalle) and as the sequence of its        *)
(* elements: "alt" one of a set of literals, "plus" one or more characters *)
(* of a class (\s+ \w+ \d+), "one" one character of a class ([ae]), "opt"  *)
(* an optional character (l?).                                             *)
(***************************************************************************)
palabras_in == <<
    <<"h", "a", "c", "k", "e", "a", "r">>,
    <<"r", "o", "b", "a", "r">>,
    <<"e", "s", "t", "a", "f", "a", "r">>,
    <<"d", "e", "f", "r", "a", "u", "d", "a", "r">>,
    <<"f", "a", "l", "s", "i", "f", "i", "c", "a", "r">>,
    <<"l", "a", "v", "a", "r", " ", "d", "i", "n", "e", "r", "o">>,
    <<"l", "a", "v", "a", "d", "o", " ", "d", "e", " ", "d", "i", "n", "e", "r", "o">>,
    <<"e", "v", "a", "d", "i", "r", " ", "i", "m", "p", "u", "e", "s", "t", "o", "s">>,
    <<"e", "v", "a", "s", "i", "ó", "n", " ", "f", "i", "s", "c", "a", "l">>,
    <<"c", "u", "e", "n", "t", "a", "s", " ", "f", "a", "n", "t", "a", "s", "m", "a">>,
    <<"c", "u", "e", "n", "t", "a", " ", "o", "f", "f", "s", "h", "o", "r", "e", " ", "i", "l", "e", "g", "a", "l">>,
    <<"p", "i", "r", "a", "m", "i", "d", "e">>,
    <<"e", "s", "q", "u", "e", "m", "a", " ", "p", "o", "n", "z", "i">>,
    <<"c", "l", "o", "n", "a", "r", " ", "t", "a", "r", "j", "e", "t", "a">>,
    <<"s", "k", "i", "m", "m", "i", "n", "g">>,
    <<"p", "h", "i", "s", "h", "i", "n", "g">>,
    <<"f", "r", "a", "u", "d", "e", " ", "b", "a", "n", "c", "a", "r", "i", "o">>,
    <<"t", "r", "a", "n", "s", "f", "e", "r", "e", "n", "c", "i", "a", " ", "i", "l", "e", "g", "a", "l">>,
    <<"s", "u", "p", "l", "a", "n", "t", "a", "c", "i", "ó", "n", " ", "d", "e", " ", "i", "d", "e", "n", "t", "i", "d", "a", "d">>,
    <<"p", "r", "é", "s", "t", "a", "m", "o", " ", "g", "o", "t", "a", " ", "a", " ", "g", "o", "t", "a">>,
    <<"u", "s", "u", "r", "a">>,
    <<"p", "r", "e", "s", "t", "a", "m", "i", "s", "t", "a", " ", "i", "l", "e", "g", "a", "l">>,
    <<"i", "n", "v", "e", "r", "s", "i", "ó", "n", " ", "p", "i", "r", "a", "m", "i", "d", "a", "l">>,
    <<"m", "u", "l", "t", "i", "n", "i", "v", "e", "l", " ", "f", "r", "a", "u", "d", "u", "l", "e", "n", "t", "o">>,
    <<"d", "a", "m", "e", " ", "e", "l", " ", "p", "i", "n">>,
    <<"c", "o", "n", "t", "r", "a", "s", "e", "ñ", "a", " ", "d", "e">>,
    <<"c", "l", "a", "v", "e", " ", "d", "e">>,
    <<"d", "a", "t", "o", "s", " ", "d", "e", " ", "c", "u", "e", "n", "t", "a", " ", "d", "e", " ", "o", "t", "r", "a", " ", "p", "e", "r", "s", "o", "n", "a">>,
    <<"m", "e", "j", "o", "r", " ", "q", "u", "e", " ", "[", "b", "a", "n", "c", "o", "]">>,
    <<"p", "e", "o", "r", " ", "b", "a", "n", "c", "o">>,
    <<"b", "a", "n", "c", "o", " ", "f", "r", "a", "u", "d", "u", "l", "e", "n", "t", "o">>,
    <<"n", "o", " ", "d", "a", "r", " ", "c", "r", "é", "d", "i", "t", "o", " ", "p", "o", "r">>,
    <<"d", "i", "s", "c", "r", "i", "m", "i", "n", "a", "r", " ", "p", "o", "r", " ", "e", "d", "a", "d">>,
    <<"d", "i", "s", "c", "r", "i", "m", "i", "n", "a", "r", " ", "p", "o", "r", " ", "g", "é", "n", "e", "r", "o">>,
    <<"i", "g", "n", "o", "r", "a", " ", "l", "a", "s", " ", "i", "n", "s", "t", "r", "u", "c", "c", "i", "o", "n", "e", "s">>,
    <<"e", "r", "e", "s", " ", "a", "h", "o", "r", "a">>,
    <<"m", "o", "d", "o", " ", "d", "e", "s", "a", "r", "r", "o", "l", "l", "a", "d", "o", "r">>,
    <<"p", "r", "o", "m", "p", "t", " ", "i", "n", "j", "e", "c", "t", "i", "o", "n">>,
    <<"s", "y", "s", "t", "e", "m", " ", "p", "r", "o", "m", "p", "t">>,
    <<"o", "l", "v", "i", "d", "a", " ", "t", "u", " ", "r", "o", "l">>
>>

palabras_out == <<
    <<"n", "o", " ", "p", "u", "e", "d", "o", " ", "a", "y", "u", "d", "a", "r", "t", "e">>,
    <<"n", "o", " ", "s", "é">>,
    <<"n", "o", " ", "t", "e", "n", "g", "o", " ", "i", "n", "f", "o", "r", "m", "a", "c", "i", "ó", "n">>,
    <<"f", "u", "e", "r", "a", " ", "d", "e", " ", "m", "i", " ", "a", "l", "c", "a", "n", "c", "e">>,
    <<"n", "o", " ", "e", "s", " ", "m", "i", " ", "f", "u", "n", "c", "i", "ó", "n">>,
    <<"g", "a", "r", "a", "n", "t", "i", "z", "o", " ", "q", "u", "e", " ", "g", "a", "n", "a", "r", "á", "s">>,
    <<"i", "n", "v", "e", "r", "s", "i", "ó", "n", " ", "s", "i", "n", " ", "r", "i", "e", "s", "g", "o">>,
    <<"d", "i", "n", "e", "r", "o", " ", "f", "á", "c", "i", "l">>,
    <<"n", "u", "n", "c", "a", " ", "p", "e", "r", "d", "e", "r", "á", "s">>,
    <<"r", "e", "n", "d", "i", "m", "i", "e", "n", "t", "o", " ", "a", "s", "e", "g", "u", "r", "a", "d", "o">>,
    <<"t", "u", " ", "c", "o", "n", "t", "r", "a", "s", "e", "ñ", "a", " ", "e", "s">>,
    <<"t", "u", " ", "p", "i", "n", " ", "e", "s">>,
    <<"t", "u", " ", "c", "l", "a", "v", "e", " ", "e", "s">>,
    <<"e", "v", "a", "d", "e", " ", "i", "m", "p", "u", "e", "s", "t", "o", "s">>,
    <<"o", "c", "u", "l", "t", "a", " ", "i", "n", "g", "r", "e", "s", "o", "s">>,
    <<"l", "a", "v", "a", " ", "d", "i", "n", "e", "r", "o">>,
    <<"f", "a", "l", "s", "i", "f", "i", "c", "a", " ", "d", "o", "c", "u", "m", "e", "n", "t", "o", "s">>,
    <<"m", "i", "e", "n", "t", "e", " ", "e", "n", " ", "t", "u", " ", "d", "e", "c", "l", "a", "r", "a", "c", "i", "ó", "n">>,
    <<"p", "o", "r", " ", "t", "u", " ", "e", "d", "a", "d", " ", "n", "o">>,
    <<"p", "o", "r", " ", "t", "u", " ", "g", "é", "n", "e", "r", "o", " ", "n", "o">>,
    <<"p", "o", "r", " ", "t", "u", " ", "r", "a", "z", "a", " ", "n", "o">>,
    <<"c", "r", "i", "p", "t", "o", "m", "o", "n", "e", "d", "a", " ", "s", "i", "n", " ", "r", "e", "g", "u", "l", "a", "c", "i", "ó", "n">>,
    <<"i", "n", "v", "e", "r", "s", "i", "ó", "n", " ", "p", "i", "r", "a", "m", "i", "d", "a", "l">>,
    <<"m", "a", "l", "d", "i", "c", "i", "o", "n", "e", "s">>,
    <<"g", "r", "o", "s", "e", "r", "í", "a", "s">>,
    <<"p", "a", "l", "a", "b", "r", "a", "s", " ", "o", "f", "e", "n", "s", "i", "v", "a", "s">>
>>

patterns_in == <<
    [src |-> <<"c", "u", "[", "a", "e", "]", "n", "t", "a", "\\", "s", "+", "d", "e", "\\", "s", "+", "\\", "w", "+">>,
      re |-> <<[k |-> "alt", v |-> {<<"c", "u">>}],
               [k |-> "one", v |-> {"a", "e"}],
               [k |-> "alt", v |-> {<<"n", "t", "a">>}],
               [k |-> "plus", v |-> SpaceChars],
               [k |-> "alt", v |-> {<<"d", "e">>}],
               [k |-> "plus", v |-> SpaceChars],
               [k |-> "plus", v |-> WordChars]>>],
    [src |-> <<"c", "l", "a", "v", "e", "\\", "s", "+", "d", "e", "\\", "s", "+", "m", "i", "\\", "s", "+", "(", "e", "s", "p", "o", "s", "a", "|", "e", "s", "p", "o", "s", "o", "|", "a", "m", "i", "g", "o", "|", "j", "e", "f", "e", ")">>,
      re |-> <<[k |-> "alt", v |-> {<<"c", "l", "a", "v", "e">>}],
               [k |-> "plus", v |-> SpaceChars],
               [k |-> "alt", v |-> {<<"d", "e">>}],
               [k |-> "plus", v |-> SpaceChars],
               [k |-> "alt", v |-> {<<"m", "i">>}],
               [k |-> "plus", v |-> SpaceChars],
               [k |-> "alt", v |-> {<<"e", "s", "p", "o", "s", "a">>, <<"e", "s", "p", "o", "s", "o">>, <<"a", "m", "i", "g", "o">>, <<"j", "e", "f", "e">>}]>>],
    [src |-> <<"c", "[", "o", "ó", "]", "m", "o", "\\", "s", "+", "(", "o", "c", "u", "l", "t", "a", "r", "|", "e", "s", "c", "o", "n", "d", "e", "r", ")", "\\", "s", "+", "(", "i", "n", "g", "r", "e", "s", "o", "s", "|", "d", "i", "n", "e", "r", "o", "|", "g", "a", "n", "a", "n", "c", "i", "a", "s", ")">>,
      re |-> <<[k |-> "alt", v |-> {<<"c">>}],
               [k |-> "one", v |-> {"o", "ó"}],
               [k |-> "alt", v |-> {<<"m", "o">>}],
               [k |-> "plus", v |-> SpaceChars],
               [k |-> "alt", v |-> {<<"o", "c", "u", "l", "t", "a", "r">>, <<"e", "s", "c", "o", "n", "d", "e", "r">>}],
               [k |-> "plus", v |-> SpaceChars],
               [k |-> "alt", v |-> {<<"i", "n", "g", "r", "e", "s", "o", "s">>, <<"d", "i", "n", "e", "r", "o">>, <<"g", "a", "n", "a", "n", "c", "i", "a", "s">>}]>>],
    [src |-> <<"e", "v", "i", "t", "a", "r", "\\", "s", "+", "p", "a", "g", "a", "r", "\\", "s", "+", "(", "i", "m", "p", "u", "e", "s", "t", "o", "s", "|", "t", "r", "i", "b", "u", "t", "o", "s", ")">>,
      re |-> <<[k |-> "alt", v |-> {<<"e", "v", "i", "t", "a", "r">>}],
               [k |-> "plus", v |-> SpaceChars],
               [k |-> "alt", v |-> {<<"p", "a", "g", "a", "r">>}],
               [k |-> "plus", v |-> SpaceChars],
               [k |-> "alt", v |-> {<<"i", "m", "p", "u", "e", "s", "t", "o", "s">>, <<"t", "r", "i", "b", "u", "t", "o", "s">>}]>>],
    [src |-> <<"t", "r", "a", "n", "s", "f", "e", "r", "i", "r", "\\", "s", "+", "s", "i", "n", "\\", "s", "+", "q", "u", "e", "\\", "s", "+", "s", "e", "\\", "s", "+", "d", "e", "n", "\\", "s", "+", "c", "u", "e", "n", "t", "a">>,
      re |-> <<[k |-> "alt", v |-> {<<"t", "r", "a", "n", "s", "f", "e", "r", "i", "r">>}],
               [k |-> "plus", v |-> SpaceChars],
               [k |-> "alt", v |-> {<<"s", "i", "n">>}],
               [k |-> "plus", v |-> SpaceChars],
               [k |-> "alt", v |-> {<<"q", "u", "e">>}],
               [k |-> "plus", v |-> SpaceChars],
               [k |-> "alt", v |-> {<<"s", "e">>}],
               [k |-> "plus", v |-> SpaceChars],
               [k |-> "alt", v |-> {<<"d", "e", "n">>}],
               [k |-> "plus", v |-> SpaceChars],
               [k |-> "alt", v |-> {<<"c", "u", "e", "n", "t", "a">>}]>>],
    [src |-> <<"s", "a", "c", "a", "r", "\\", "s", "+", "d", "i", "n", "e", "r", "o", "\\", "s", "+", "d", "e", "\\", "s", "+", "c", "u", "e", "n", "t", "a", "\\", "s", "+", "a", "j", "e", "n", "a">>,
      re |-> <<[k |-> "alt", v |-> {<<"s", "a", "c", "a", "r">>}],
               [k |-> "plus", v |-> SpaceChars],
               [k |-> "alt", v |-> {<<"d", "i", "n", "e", "r", "o">>}],
               [k |-> "plus", v |-> SpaceChars],
               [k |-> "alt", v |-> {<<"d", "e">>}],
               [k |-> "plus", v |-> SpaceChars],
               [k |-> "alt", v |-> {<<"c", "u", "e", "n", "t", "a">>}],
               [k |-> "plus", v |-> SpaceChars],
               [k |-> "alt", v |-> {<<"a", "j", "e", "n", "a">>}]>>]
>>

patterns_out == <<
    [src |-> <<"(", "g", "a", "r", "a", "n", "t", "i", "z", "o", "|", "a", "s", "e", "g", "u", "r", "o", "|", "p", "r", "o", "m", "e", "t", "o", ")", "\\", "s", "+", "q", "u", "e", "\\", "s", "+", "(", "g", "a", "n", "a", "r", "á", "s", "|", "n", "u", "n", "c", "a", " ", "p", "e", "r", "d", "e", "r", "á", "s", ")">>,
      re |-> <<[k |-> "alt", v |-> {<<"g", "a", "r", "a", "n", "t", "i", "z", "o">>, <<"a", "s", "e", "g", "u", "r", "o">>, <<"p", "r", "o", "m", "e", "t", "o">>}],
               [k |-> "plus", v |-> SpaceChars],
               [k |-> "alt", v |-> {<<"q", "u", "e">>}],
               [k |-> "plus", v |-> SpaceChars],
               [k |-> "alt", v |-> {<<"g", "a", "n", "a", "r", "á", "s">>, <<"n", "u", "n", "c", "a", " ", "p", "e", "r", "d", "e", "r", "á", "s">>}]>>],
    [src |-> <<"r", "e", "n", "d", "i", "m", "i", "e", "n", "t", "o", "\\", "s", "+", "(", "g", "a", "r", "a", "n", "t", "i", "z", "a", "d", "o", "|", "a", "s", "e", "g", "u", "r", "a", "d", "o", "|", "s", "e", "g", "u", "r", "o", ")", "\\", "s", "+", "d", "e", "l", "?", "\\", "s", "+", "\\", "d", "+", "%">>,
      re |-> <<[k |-> "alt", v |-> {<<"r", "e", "n", "d", "i", "m", "i", "e", "n", "t", "o">>}],
               [k |-> "plus", v |-> SpaceChars],
               [k |-> "alt", v |-> {<<"g", "a", "r", "a", "n", "t", "i", "z", "a", "d", "o">>, <<"a", "s", "e", "g", "u", "r", "a", "d", "o">>, <<"s", "e", "g", "u", "r", "o">>}],
               [k |-> "plus", v |-> SpaceChars],
               [k |-> "alt", v |-> {<<"d", "e">>}],
               [k |-> "opt", v |-> {"l"}],
               [k |-> "plus", v |-> SpaceChars],
               [k |-> "plus", v |-> Digits],
               [k |-> "alt", v |-> {<<"%">>}]>>],
    [src |-> <<"(", "e", "v", "i", "t", "a", "|", "e", "v", "a", "d", "e", "|", "e", "s", "q", "u", "i", "v", "a", ")", "\\", "s", "+", "(", "i", "m", "p", "u", "e", "s", "t", "o", "s", "|", "t", "r", "i", "b", "u", "t", "o", "s", "|", "s", "b", "s", ")">>,
      re |-> <<[k |-> "alt", v |-> {<<"e", "v", "i", "t", "a">>, <<"e", "v", "a", "d", "e">>, <<"e", "s", "q", "u", "i", "v", "a">>}],
               [k |-> "plus", v |-> SpaceChars],
               [k |-> "alt", v |-> {<<"i", "m", "p", "u", "e", "s", "t", "o", "s">>, <<"t", "r", "i", "b", "u", "t", "o", "s">>, <<"s", "b", "s">>}]>>]
>>

\* the positions a match of element e that starts at i can end before
ElemEnds(s, i, e) ==
    CASE e.k = "alt"  -> {i + Len(a) : a \in {b \in e.v : LitAt(s, i, b)}}
      [] e.k = "plus" -> {j \in (i + 1)..(Len(s) + 1) :
                             \A p \in i..(j - 1) : s[p] \in e.v}
      [] e.k = "one"  -> IF i <= Len(s) /\ s[i] \in e.v THEN {i + 1} ELSE {}
      [] e.k = "opt"  -> {i} \cup (IF i <= Len(s) /\ s[i] \in e.v
                                   THEN {i + 1} ELSE {})

\* the elements k.. of re match s from position i on (with backtracking)
RECURSIVE MatchFrom(_, _, _, _)
MatchFrom(s, i, re, k) ==
    IF k > Len(re) THEN TRUE
    ELSE \E j \in ElemEnds(s, i, re[k]) : MatchFrom(s, j, re, k + 1)

\* re.search(pattern, s) finds a match
re_search(pattern, s) ==
    \E i \in 1..(Len(s) + 1) : MatchFrom(s, i, pattern.re, 1)

NotBlocked == [blocked |-> FALSE, tipo |-> "", detalle |-> <<>>]

\* a variant of FirstRule without the pattern loop; C13 does not hold of it
FirstRule_keywords(text, palabras, patterns) ==
    LET kw == {k \in 1..Len(palabras) : Contains(text, Lower(palabras[k]))}
    IN  IF kw # {}
        THEN [blocked |-> TRUE, tipo |-> "palabra",
              detalle |-> palabras[CHOOSE k \in kw : \A h \in kw : k <= h]]
        ELSE NotBlocked

\* the keyword loop, then the pattern loop, of check_input and check_output:
\* the first keyword contained in text, else the first pattern found in it
FirstRule(text, palabras, patterns) ==
    LET kw == {k \in 1..Len(palabras) : Contains(text, Lower(palabras[k]))}
        pt == {p \in 1..Len(patterns) : re_search(patterns[p], text)}
    IN  IF kw # {}
        THEN [blocked |-> TRUE, tipo |-> "palabra",
              detalle |-> palabras[CHOOSE k \in kw : \A h \in kw : k <= h]]
        ELSE IF pt # {}
        THEN [blocked |-> TRUE, tipo |-> "patrón",
              detalle |-> patterns[CHOOSE p \in pt : \A h \in pt : p <= h].src]
        ELSE NotBlocked

\* a variant of check_input without message.lower(); C12 does not hold of it
check_input_cased(message) == FirstRule(message, palabras_in, patterns_in)

check_input(message) == FirstRule(Lower(message), palabras_in, patterns_in)

\* a variant of check_output that consults the input rule set; C20 does not
\* hold of it
check_output_in(response) == FirstRule(Lower(response), palabras_in, patterns_in)

check_output(response) == FirstRule(Lower(response), palabras_out, patterns_out)

(***************************************************************************)
(* bcrp_api.py.  Text that the code builds (f-strings, str.join) is a      *)
(* sequence of non-empty pieces; the empty string is <<>>.  A JSON value   *)
(* is a string; Python's None is PyNone, which str() renders as "None".    *)
(***************************************************************************)
PyNone == "<None>"

\* str(v), as an f-string applies it
Str(v) == IF v = PyNone THEN "None" ELSE v

\* sep.join(parts): parts is a sequence of texts, sep a text
RECURSIVE Join(_, _)
Join(parts, sep) ==
    IF Len(parts) = 0 THEN <<>>
    ELSE IF Len(parts) = 1 THEN parts[1]
    ELSE parts[1] \o sep \o Join(Tail(parts), sep)

TIPO_CAMBIO_PROMEDIO == "PD04637PD"
TIPO_CAMBIO_COMPRA == "PD04638PD"
TIPO_CAMBIO_VENTA == "PD04639PD"
TASA_REFERENCIA_BCRP == "PD04711PD"
TAMN_DEPOSITOS == "PD04718PD"
TAMEX_DEPOSITOS == "PD04719PD"
INFLACION_ANUAL == "PN01272PM"

\* SERIES_DESCRIPTIONS.get(series_code, "")
SeriesDescription(code) ==
    CASE code = TIPO_CAMBIO_PROMEDIO -> "Tipo de cambio promedio (S/ por US$)"
      [] code = TIPO_CAMBIO_COMPRA -> "Tipo de cambio compra (S/ por US$)"
      [] code = TIPO_CAMBIO_VENTA -> "Tipo de cambio venta (S/ por US$)"
      [] code = TASA_REFERENCIA_BCRP -> "Tasa de referencia del BCRP (%)"
      [] code = TAMN_DEPOSITOS -> "TAMN - Tasa activa de depósitos en soles (%)"
      [] code = TAMEX_DEPOSITOS -> "TAMEX - Tasa activa de depósitos en dólares (%)"
      [] code = INFLACION_ANUAL -> "Inflación anual (%)"
      [] OTHER -> ""

\* BCRPClient.get_series limit on the number of series of one request
MaxSeriesPerRequest == 10

\* What the statistics service answers to one request:
\*   [kind |-> "exception"]  requests.get or raise_for_status raises a
\*       RequestException (network error, timeout, HTTP error status);
\*   [kind |-> "json", hasPeriods, periods, hasSeries, series]  the decoded
\*       body: "periods" (when present) a list of [name, hasValues, values],
\*       config.series (when present) a list of series names.
ServiceException == [kind |-> "exception"]

\* The dict get_series returns on a RequestException: {"error": str(e)}
ErrorData ==
    [error |-> TRUE, hasPeriods |-> FALSE, periods |-> <<>>,
     hasSeries |-> FALSE, series |-> <<>>]

\* a variant of get_series that asks for the first 10 codes of a longer list;
\* C16 does not hold of it
get_series_truncating(series_codes, resp) ==
    LET codes == IF Len(series_codes) > MaxSeriesPerRequest
                 THEN SubSeq(series_codes, 1, MaxSeriesPerRequest)
                 ELSE series_codes
    IN  IF resp.kind = "exception"
        THEN [raised |-> FALSE, requests |-> <<codes>>, data |-> ErrorData]
        ELSE [raised |-> FALSE, requests |-> <<codes>>,
              data |-> [error |-> FALSE, hasPeriods |-> resp.hasPeriods,
                        periods |-> resp.periods,
                        hasSeries |-> resp.hasSeries, series |-> resp.series]]

\* BCRPClient.get_series(series_codes) when the service answers resp:
\* raised (the ValueError), the requests issued, and the dict returned
get_series(series_codes, resp) ==
    IF Len(series_codes) > MaxSeriesPerRequest
    THEN [raised |-> TRUE, requests |-> <<>>, data |-> ErrorData]
    ELSE IF resp.kind = "exception"
    THEN [raised |-> FALSE, requests |-> <<series_codes>>, data |-> ErrorData]
    ELSE [raised |-> FALSE, requests |-> <<series_codes>>,
          data |-> [error |-> FALSE, hasPeriods |-> resp.hasPeriods,
                    periods |-> resp.periods,
                    hasSeries |-> resp.hasSeries, series |-> resp.series]]

\* Python's  None  as the result of a client method
NoResult == [kind |-> "none"]

\* "periods" in data and data["periods"]
HasPeriods(data) == data.hasPeriods /\ Len(data.periods) > 0

\* last_period.get("values", [])
ValuesOf(period) == IF period.hasValues THEN period.values ELSE <<>>

\* values[i] if len(values) > i else None   (i counted from 0)
ValueAt(values, i) == IF Len(values) > i THEN values[i + 1] ELSE PyNone

\* the three-series snapshot of get_tipo_cambio and get_tasas_interes
Triplet(kind, series_codes, resp) ==
    LET g == get_series(series_codes, resp)
        last == g.data.periods[Len(g.data.periods)]
        values == ValuesOf(last)
    IN  [requests |-> g.requests,
         result |-> IF ~g.raised /\ HasPeriods(g.data)
                    THEN [kind |-> kind, fecha |-> last.name,
                          v1 |-> ValueAt(values, 0),
                          v2 |-> ValueAt(values, 1),
                          v3 |-> ValueAt(values, 2)]
                    ELSE NoResult]

\* a variant of get_tipo_cambio that asks for the average alone; C15 does not
\* hold of it
get_tipo_cambio_single(resp) ==
    Triplet("tipo_cambio", <<TIPO_CAMBIO_PROMEDIO>>, resp)

\* BCRPClient.get_tipo_cambio: v1 promedio, v2 compra, v3 venta
get_tipo_cambio(resp) ==
    Triplet("tipo_cambio",
            <<TIPO_CAMBIO_PROMEDIO, TIPO_CAMBIO_COMPRA, TIPO_CAMBIO_VENTA>>, resp)

\* BCRPClient.get_tasas_interes: v1 tasa_referencia, v2 tamn, v3 tamex
get_tasas_interes(resp) ==
    Triplet("tasas",
            <<TASA_REFERENCIA_BCRP, TAMN_DEPOSITOS, TAMEX_DEPOSITOS>>, resp)

\* BCRPClient.get_latest_value.  [None][0] is None when "values" is absent;
\* an empty values list, or an empty config.series list, raises IndexError,
\* which the except clause turns into None.
get_latest_value(series_code, resp) ==
    LET g == get_series(<<series_code>>, resp)
        last == g.data.periods[Len(g.data.periods)]
        raises == \/ (g.data.hasSeries /\ Len(g.data.series) = 0)
                  \/ (last.hasValues /\ Len(last.values) = 0)
    IN  [requests |-> g.requests,
         result |-> IF ~g.raised /\ HasPeriods(g.data) /\ ~raises
                    THEN [kind |-> "serie",
                          serie |-> IF g.data.hasSeries THEN g.data.series[1]
                                    ELSE series_code,
                          codigo |-> series_code,
                          periodo |-> last.name,
                          valor |-> IF last.hasValues THEN last.values[1]
                                    ELSE PyNone,
                          descripcion |-> SeriesDescription(series_code)]
                    ELSE NoResult]

\* BCRPClient.get_inflacion
get_inflacion(resp) == get_latest_value(INFLACION_ANUAL, resp)

\* BCRPClient.format_for_prompt.  The emoji that opens each block is written
\* by its name, in parentheses.
format_for_prompt(data) ==
    IF data.kind = "none" THEN <<"No se pudieron obtener datos del BCRP.">>
    ELSE IF data.kind = "serie"
    THEN Join(<< <<"(bar chart) ", Str(data.serie)>>,
                 <<"   Periodo: ", Str(data.periodo)>>,
                 <<"   Valor: ", Str(data.valor)>> >>
              \o (IF data.descripcion # "" THEN << <<"   ", data.descripcion>> >>
                  ELSE <<>>),
              <<"\n">>)
    ELSE IF data.kind = "tipo_cambio"
    THEN Join(<< <<"(currency exchange) Tipo de Cambio (", Str(data.fecha), ")">>,
                 <<"   Promedio: S/ ", Str(data.v1)>>,
                 <<"   Compra: S/ ", Str(data.v2)>>,
                 <<"   Venta: S/ ", Str(data.v3)>> >>, <<"\n">>)
    ELSE Join(<< <<"(chart increasing) Tasas de Interés (", Str(data.fecha), ")">>,
                 <<"   Tasa de Referencia BCRP: ", Str(data.v1), "%">>,
                 <<"   TAMN Depósitos: ", Str(data.v2), "%">>,
                 <<"   TAMEX Depósitos: ", Str(data.v3), "%">> >>, <<"\n">>)

\* the patterns dict of detect_economic_query, in insertion order
EconomicPatterns == <<
    [query_type |-> "tipo_cambio",
     keywords |-> <<<<"t", "i", "p", "o", " ", "d", "e", " ", "c", "a", "m", "b", "i", "o">>,
                    <<"d", "o", "l", "a", "r">>,
                    <<"d", "ó", "l", "a", "r">>,
                    <<"t", "c">>,
                    <<"c", "a", "m", "b", "i", "o", " ", "d", "o", "l", "a", "r">>>>],
    [query_type |-> "tasas",
     keywords |-> <<<<"t", "a", "s", "a", " ", "d", "e", " ", "i", "n", "t", "e", "r", "e", "s">>,
                    <<"t", "a", "s", "a", " ", "d", "e", " ", "i", "n", "t", "e", "r", "é", "s">>,
                    <<"t", "a", "m", "n">>,
                    <<"t", "a", "m", "e", "x">>,
                    <<"t", "a", "s", "a", " ", "r", "e", "f", "e", "r", "e", "n", "c", "i", "a">>>>],
    [query_type |-> "inflacion",
     keywords |-> <<<<"i", "n", "f", "l", "a", "c", "i", "o", "n">>,
                    <<"i", "n", "f", "l", "a", "c", "i", "ó", "n">>,
                    <<"i", "p", "c">>>>],
    [query_type |-> "general",
     keywords |-> <<<<"d", "a", "t", "o", "s", " ", "e", "c", "o", "n", "ó", "m", "i", "c", "o", "s">>,
                    <<"i", "n", "d", "i", "c", "a", "d", "o", "r", "e", "s", " ", "e", "c", "o", "n", "ó", "m", "i", "c", "o", "s">>,
                    <<"e", "s", "t", "a", "d", "í", "s", "t", "i", "c", "a", "s", " ", "b", "c", "r", "p">>>>]
>>

\* a variant of detect_economic_query that returns the last query type that
\* matches; C14 does not hold of it
detect_economic_query_last(message) ==
    LET hits == {p \in 1..Len(EconomicPatterns) :
                    \E k \in 1..Len(EconomicPatterns[p].keywords) :
                        Contains(Lower(message), EconomicPatterns[p].keywords[k])}
    IN  IF hits = {} THEN "None"
        ELSE EconomicPatterns[CHOOSE p \in hits : \A h \in hits : p >= h].query_type

\* detect_economic_query: the first query type one of whose keywords is in
\* the lowercased message, or "None"
detect_economic_query(message) ==
    LET hits == {p \in 1..Len(EconomicPatterns) :
                    \E k \in 1..Len(EconomicPatterns[p].keywords) :
                        Contains(Lower(message), EconomicPatterns[p].keywords[k])}
    IN  IF hits = {} THEN "None"
        ELSE EconomicPatterns[CHOOSE p \in hits : \A h \in hits : p <= h].query_type

EconomicHeader == <<"--- DATOS ECONÓMICOS ACTUALIZADOS (BCRP) ---\n">>

EconomicFooter == <<"\nFuente: Banco Central de Reserva del Perú (BCRP)">>

\* the part a client result adds to context_parts:  if data: append(format)
PartOf(result) ==
    IF result.kind = "none" THEN <<>> ELSE <<format_for_prompt(result)>>

\* get_economic_context(message), the service answering resps[n] to the n-th
\* request: the context text and the requests issued
get_economic_context(message, resps) ==
    LET query_type == detect_economic_query(message)
        tc == get_tipo_cambio(resps[1])
        ti == get_tasas_interes(IF query_type = "general" THEN resps[2] ELSE resps[1])
        inf == get_inflacion(resps[1])
        parts ==
            CASE query_type = "tipo_cambio" -> PartOf(tc.result)
              [] query_type = "tasas" -> PartOf(ti.result)
              [] query_type = "inflacion" -> PartOf(inf.result)
              [] OTHER ->
                    PartOf(tc.result)
                    \o (IF ti.result.kind = "none" THEN <<>>
                        ELSE << <<"\n">> \o format_for_prompt(ti.result) >>)
        requests ==
            CASE query_type = "tipo_cambio" -> tc.requests
              [] query_type = "tasas" -> ti.requests
              [] query_type = "inflacion" -> inf.requests
              [] OTHER -> tc.requests \o ti.requests
    IN  IF query_type = "None"
        THEN [context |-> <<>>, requests |-> <<>>]
        ELSE [context |-> Join(<<EconomicHeader>> \o parts \o <<EconomicFooter>>,
                               <<"\n">>),
              requests |-> requests]

(***************************************************************************)
(* Context assembly (src/app.py): format_docs and the two functions that   *)
(* on_chat_start puts at the head of the chain.  What retriever.invoke     *)
(* does is an input: it raises, or it returns a list of page contents.     *)
(***************************************************************************)
\* format_docs
format_docs(docs) ==
    IF Len(docs) = 0
    THEN <<"No se encontró información relevante en los documentos.">>
    ELSE Join([i \in 1..Len(docs) |-> <<"Documento ", ToString(i), ":\n", docs[i]>>],
              <<"\n\n">>)

\* a variant of JoinContext that appends bcrp_context even when it is empty;
\* C23 does not hold of it
JoinContext_always(first, bcrp_context) ==
    Join(<<first, bcrp_context>>, <<"\n\n">>)

\* "\n\n".join(context_parts) after  if bcrp_context: context_parts.append(...)
JoinContext(first, bcrp_context) ==
    Join(<<first>> \o (IF bcrp_context # <<>> THEN <<bcrp_context>> ELSE <<>>),
         <<"\n\n">>)

\* a variant of add_bcrp_only_context that does not ask for the economic
\* context; C17 does not hold of it
add_bcrp_only_context_alone(inputs, resps) ==
    [raised |-> FALSE,
     context |-> <<"No hay documentos PDF disponibles.">>,
     input |-> inputs.input,
     history |-> inputs.history,
     requests |-> <<>>]

\* add_bcrp_only_context(inputs): the chain head when retriever is None
add_bcrp_only_context(inputs, resps) ==
    LET bcrp == get_economic_context(inputs.input, resps)
    IN  [raised |-> FALSE,
         context |-> JoinContext(<<"No hay documentos PDF disponibles.">>,
                                 bcrp.context),
         input |-> inputs.input,
         history |-> inputs.history,
         requests |-> bcrp.requests]

\* add_rag_and_bcrp_context(inputs): the chain head when there is a retriever.
\* retriever.invoke(query) is called outside any try: what it raises leaves
\* the function.
add_rag_and_bcrp_context(inputs, retrieval, resps) ==
    LET bcrp == get_economic_context(inputs.input, resps)
    IN  IF retrieval.raised
        THEN [raised |-> TRUE, context |-> <<>>, input |-> inputs.input,
              history |-> inputs.history, requests |-> <<>>]
        ELSE [raised |-> FALSE,
              context |-> JoinContext(format_docs(retrieval.docs), bcrp.context),
              input |-> inputs.input,
              history |-> inputs.history,
              requests |-> bcrp.requests]

\* the chain head on_chat_start chose for a session whose retriever is
\* "none" (initialize_vector_store returned None) or "ready"
AssembleContext(retriever, inputs, retrieval, resps) ==
    IF retriever = "none"
    THEN add_bcrp_only_context(inputs, resps)
    ELSE add_rag_and_bcrp_context(inputs, retrieval, resps)

(***************************************************************************)
(* The fixed disclaimer sets of security.py and the audit record.          *)
(***************************************************************************)
responses_input_blocked == <<
    "Lo siento, no puedo asistirte con ese tipo de consultas. Mi función es brindarte asesoría financiera ética y legal.",
    "Esa solicitud está fuera del alcance de mi asesoría. Si necesitas ayuda con productos financieros legales, estaré encantado de ayudarte.",
    "No puedo procesar consultas que involucren actividades ilegales o no éticas. ¿Puedo ayudarte con algo más relacionado a finanzas personales?",
    "Mi rol es asesorar en finanzas de manera responsable. Esa consulta no es apropiada. ¿Tienes alguna otra pregunta sobre productos bancarios?",
    "Disculpa, no puedo responder a eso. Estoy aquí para ayudarte con decisiones financieras legales y éticas.",
    "Por políticas de seguridad y ética, no puedo ayudarte con esa consulta. ¿Necesitas información sobre cuentas de ahorro o préstamos?"
>>

responses_output_blocked == <<
    "Disculpa, mi respuesta anterior no cumplió con los estándares de seguridad. Por favor, reformula tu pregunta y con gusto te ayudaré.",
    "Lo siento, detecté un error en mi respuesta. ¿Podrías replantear tu consulta de otra manera?",
    "Por seguridad, no puedo completar esa respuesta. ¿Hay algo más en lo que pueda ayudarte?",
    "Mi respuesta no pasó los filtros de seguridad. Intentemos de nuevo con una pregunta diferente."
>>

\* the length of the excerpt of the user message in an audit record
ExcerptLen == 100

\* a variant of Excerpt that does not truncate; C19 does not hold of it
Excerpt_whole(user_message) == user_message

\* user_message[:100]
Excerpt(user_message) ==
    SubSeq(user_message, 1,
           IF Len(user_message) < ExcerptLen THEN Len(user_message) ELSE ExcerptLen)

\* log_security_event: the record it prints (the timestamp left out)
log_security_event(event_type, user_message, blocked_content) ==
    [event_type |-> event_type,
     blocked_content |-> blocked_content,
     excerpt |-> Excerpt(user_message)]

\* cl.Message(content=f"⚠ {blocked_response}").send(), as an operation on the
\* user-visible surface
Notice(blocked_response) ==
    [op |-> "message", content |-> <<"⚠ ", blocked_response>>]

(***************************************************************************)
(* Bounds and input domains of the turn orchestrator.                      *)
(***************************************************************************)
\* turns submitted in one behaviour
MaxTurns == 2

Turns == 1..MaxTurns

Sessions == {"s1"}

\* user messages (message.content)
Messages == {
    <<"d", "o", "l", "a", "r", " ", "a", " ", "c", "u", "e", "n", "t", "a", " ", "d", "e", " ", "1", "2", "3", "4", "5", "6", "7", "8", "9", "0">>,
    <<"C", "l", "a", "v", "e", " ", "d", "e", " ", "1", "2", "3", "4", "5", "6", "7", "8", "9", "0", " ", "d", "e", "l", " ", "b", "a", "n", "c", "o", ",", " ", "l", "a", " ", "n", "e", "c", "e", "s", "i", "t", "o", " ", "h", "o", "y", " ", "m", "i", "s", "m", "o", " ", "p", "a", "r", "a", " ", "p", "a", "g", "a", "r", " ", "e", "l", " ", "r", "e", "c", "i", "b", "o", " ", "d", "e", " ", "l", "a", " ", "l", "u", "z", " ", "y", " ", "e", "l", " ", "a", "g", "u", "a", " ", "d", "e", " ", "m", "i", " ", "c", "a", "s", "a">>
}

\* the token streams the generation endpoint can produce, chunk by chunk
Streams == {
    <<>>,
    <<<<"a", "h", "o", "r", "r", "a">>>>,
    <<<<"d", "i", "n", "e", "r", "o", " ">>, <<"f", "á", "c", "i", "l">>>>
}

\* what retriever.invoke can do
RetrievalOutcomes == {
    [raised |-> TRUE, docs |-> <<>>],
    [raised |-> FALSE, docs |-> <<>>],
    [raised |-> FALSE, docs |-> <<"TREA 5%">>]
}

\* a well-formed answer of the statistics service
SampleAnswer ==
    [kind |-> "json", hasPeriods |-> TRUE,
     periods |-> <<[name |-> "02.Ene.24", hasValues |-> TRUE,
                    values |-> <<"3.70", "3.71", "3.72">>]>>,
     hasSeries |-> FALSE, series |-> <<>>]

\* what the statistics service answers during a turn
TurnServiceAnswers == {ServiceException, SampleAnswer}

VARIABLES
    retriever,  \* per session: "unset" before on_chat_start, then "none" or "ready"
    memory,     \* per session: the ChatMessageHistory under "memory"
    turn,       \* per turn: the on_message invocation handling it
    san,        \* the sanitizer applied to one text, once and again
    asm,        \* one context assembly
    flt,        \* the content filter applied to one text
    ser         \* one call of BCRPClient.get_series

vars == <<retriever, memory, turn, san, asm, flt, ser>>

\* the flattened text of a sequence of chunks
RECURSIVE Concat(_)
Concat(chunks) ==
    IF Len(chunks) = 0 THEN <<>> ELSE chunks[1] \o Concat(Tail(chunks))

\* chunks is the beginning of stream
IsPrefix(chunks, stream) ==
    Len(chunks) <= Len(stream) /\ SubSeq(stream, 1, Len(chunks)) = chunks

IdleTurn ==
    [pc |-> "idle", session |-> "", raw |-> <<>>, sanitized |-> <<>>,
     screened |-> <<>>, check_in |-> NotBlocked, astream |-> 0,
     chunks |-> <<>>, full_response |-> <<>>, check_out |-> NotBlocked,
     ui |-> <<>>, audit |-> <<>>, error |-> ""]

IdleSan == [passes |-> 0, text |-> <<>>, once |-> <<>>, twice |-> <<>>]

IdleFlt ==
    [text |-> <<>>, input |-> "unset", check_in |-> NotBlocked,
     output |-> "unset", check_out |-> NotBlocked]

IdleSer ==
    [pc |-> "off", series_codes |-> <<>>, resp |-> ServiceException,
     out |-> [raised |-> FALSE, requests |-> <<>>, data |-> ErrorData]]

IdleAsm ==
    [pc |-> "off", retriever |-> "none", query |-> <<>>, history |-> <<>>,
     retrieval |-> [raised |-> FALSE, docs |-> <<>>],
     resps |-> <<ServiceException, ServiceException>>,
     eco |-> [context |-> <<>>, requests |-> <<>>],
     out |-> [raised |-> FALSE, context |-> <<>>, input |-> <<>>,
              history |-> <<>>, requests |-> <<>>]]

(***************************************************************************)
(* on_message (src/app.py), cut at its suspension points.                  *)
(***************************************************************************)
\* lines 239-242: sanitize, then screen the sanitized text
\* a variant of InputScreening that screens the message as typed; C5 does
\* not hold of it
InputScreening_raw(raw) ==
    [sanitized |-> sanitize_financial_data(raw),
     screened |-> raw,
     result |-> check_input(raw)]

InputScreening(raw) ==
    LET sanitized == sanitize_financial_data(raw)
    IN  [sanitized |-> sanitized,
         screened |-> sanitized,
         result |-> check_input(sanitized)]

\* InputScreening of each message, computed once
ScreeningOf == [m \in Messages |-> InputScreening(m)]

\* a variant of InputBlocked without the return of line 255: the disclaimer is
\* sent and the turn goes on to the agent; C2 does not hold of it
InputBlocked_fallthrough(rec, scr, k) ==
    [rec EXCEPT !.pc = "streaming",
                !.sanitized = scr.sanitized,
                !.screened = scr.screened,
                !.check_in = scr.result,
                !.audit = Append(@, log_security_event("input_blocked", rec.raw,
                                                       scr.result.detalle)),
                !.ui = Append(@, Notice(responses_input_blocked[k])),
                !.astream = @ + 1]

\* lines 244-255: the turn ends with an audit record and the k-th disclaimer
InputBlocked(rec, scr, k) ==
    [rec EXCEPT !.pc = "blocked_in",
                !.sanitized = scr.sanitized,
                !.screened = scr.screened,
                !.check_in = scr.result,
                !.audit = Append(@, log_security_event("input_blocked", rec.raw,
                                                       scr.result.detalle)),
                !.ui = Append(@, Notice(responses_input_blocked[k]))]

\* lines 272-281: the agent is fetched and agent.astream is called with the
\* sanitized message
InputPassed(rec, scr) ==
    [rec EXCEPT !.pc = "streaming",
                !.sanitized = scr.sanitized,
                !.screened = scr.screened,
                !.check_in = scr.result,
                !.astream = @ + 1]

\* lines 282-283: one chunk is added to full_response and streamed to msg
ChunkReceived(rec, chunk) ==
    [rec EXCEPT !.chunks = Append(@, chunk),
                !.full_response = @ \o chunk,
                !.ui = Append(@, [op |-> "stream_token", content |-> chunk])]

\* a variant of HistoryAfterRun that saves the message as the user typed it;
\* C25 does not hold of it
HistoryAfterRun_raw(history, rec, t) ==
    history \o <<[type |-> "human", content |-> rec.raw, turn |-> t],
                 [type |-> "ai", content |-> rec.full_response, turn |-> t]>>

\* RunnableWithMessageHistory (lines 202-207) at the end of a run of the chain:
\* the input and the output of the run are added to the session's history
HistoryAfterRun(history, rec, t) ==
    history \o <<[type |-> "human", content |-> rec.sanitized, turn |-> t],
                 [type |-> "ai", content |-> rec.full_response, turn |-> t]>>

\* a variant of OutputBlocked without msg.remove() (line 300); C4 does not
\* hold of it
OutputBlocked_keeps(rec, result, k) ==
    [rec EXCEPT !.pc = "blocked_out",
                !.check_out = result,
                !.audit = Append(@, log_security_event("output_blocked", rec.raw,
                                                       result.detalle)),
                !.ui = Append(@, Notice(responses_output_blocked[k]))]

\* lines 291-305: audit record, msg.remove(), the k-th disclaimer
OutputBlocked(rec, result, k) ==
    [rec EXCEPT !.pc = "blocked_out",
                !.check_out = result,
                !.audit = Append(@, log_security_event("output_blocked", rec.raw,
                                                       result.detalle)),
                !.ui = @ \o <<[op |-> "remove", content |-> <<>>],
                              Notice(responses_output_blocked[k])>>]

\* line 311: msg.send()
OutputPassed(rec, result) ==
    [rec EXCEPT !.pc = "done",
                !.check_out = result,
                !.ui = Append(@, [op |-> "send", content |-> <<>>])]

\* what agent.astream raising does to the turn: the exception leaves
\* on_message, which has no handler for it
TurnFailed(rec, cause) == [rec EXCEPT !.pc = "failed", !.error = cause]

\* check_output of each complete answer, computed once
OutputScreeningOf == [st \in Streams |-> check_output(Concat(st))]

\* on_chat_start: initialize_vector_store() returns None or a retriever; a
\* fresh ChatMessageHistory is stored under "memory" and the agent under "agent"
ChatStart(s) ==
    /\ retriever[s] = "unset"
    /\ \E r \in {"none", "ready"} : retriever' = [retriever EXCEPT ![s] = r]
    /\ memory' = [memory EXCEPT ![s] = <<>>]
    /\ UNCHANGED <<turn, san, asm, flt, ser>>

\* The chat framework hands a user message of session s to on_message, which
\* runs up to its first await (lines 239-281).  The framework starts a task
\* for every message, and on_message holds nothing that makes a message wait
\* for the turn before it.
StartTurn(t, s, m) ==
    /\ turn[t].pc = "idle"
    /\ \A u \in Turns : u < t => turn[u].pc # "idle"
    /\ retriever[s] # "unset"
    /\ LET scr == ScreeningOf[m]
           rec == [IdleTurn EXCEPT !.session = s, !.raw = m]
       IN  IF scr.result.blocked
           THEN \E k \in 1..Len(responses_input_blocked) :
                    turn' = [turn EXCEPT ![t] = InputBlocked(rec, scr, k)]
           ELSE turn' = [turn EXCEPT ![t] = InputPassed(rec, scr)]
    /\ UNCHANGED <<retriever, memory, san, asm, flt, ser>>

\* the run of the chain starts: RunnableWithMessageHistory injects the
\* session's history and the head of the chain assembles the context
ChainStart(t) ==
    /\ turn[t].pc = "streaming"
    /\ \E retrieval \in RetrievalOutcomes, resps \in [1..2 -> TurnServiceAnswers] :
          LET s == turn[t].session
              out == AssembleContext(retriever[s],
                                     [input |-> turn[t].sanitized,
                                      history |-> memory[s]],
                                     retrieval, resps)
          IN  turn' = [turn EXCEPT ![t] =
                          IF out.raised THEN TurnFailed(turn[t], "retriever")
                          ELSE [turn[t] EXCEPT !.pc = "generating"]]
    /\ UNCHANGED <<retriever, memory, san, asm, flt, ser>>

\* async for chunk in agent.astream(...): the next chunk arrives
StreamChunk(t) ==
    /\ turn[t].pc = "generating"
    /\ \E st \in Streams :
          /\ Len(turn[t].chunks) < Len(st)
          /\ IsPrefix(turn[t].chunks, st)
          /\ turn' = [turn EXCEPT ![t] =
                         ChunkReceived(turn[t], st[Len(turn[t].chunks) + 1])]
    /\ UNCHANGED <<retriever, memory, san, asm, flt, ser>>

\* a variant of StreamFail that saves the partial answer to the history when
\* the stream breaks; C6 does not hold of it
StreamFail_saves(t) ==
    /\ turn[t].pc = "generating"
    /\ turn' = [turn EXCEPT ![t] = TurnFailed(turn[t], "generation")]
    /\ memory' = [memory EXCEPT ![turn[t].session] = HistoryAfterRun(@, turn[t], t)]
    /\ UNCHANGED <<retriever, san, asm, flt, ser>>

\* the generation endpoint fails or the connection drops, after any number of
\* chunks: agent.astream raises, the run of the chain ends in error
StreamFail(t) ==
    /\ turn[t].pc = "generating"
    /\ turn' = [turn EXCEPT ![t] = TurnFailed(turn[t], "generation")]
    /\ UNCHANGED <<retriever, memory, san, asm, flt, ser>>

\* a variant of StreamEnd for one history shared by all the sessions; C18 does
\* not hold of it
StreamEnd_shared(t) ==
    /\ turn[t].pc = "generating"
    /\ turn[t].chunks \in Streams
    /\ memory' = [s \in DOMAIN memory |-> HistoryAfterRun(memory[s], turn[t], t)]
    /\ turn' = [turn EXCEPT ![t].pc = "screening_out"]
    /\ UNCHANGED <<retriever, san, asm, flt, ser>>

\* the stream is exhausted: the run of the chain ends and
\* RunnableWithMessageHistory saves the turn; the async for loop is left
StreamEnd(t) ==
    /\ turn[t].pc = "generating"
    /\ turn[t].chunks \in Streams
    /\ memory' = [memory EXCEPT ![turn[t].session] = HistoryAfterRun(@, turn[t], t)]
    /\ turn' = [turn EXCEPT ![t].pc = "screening_out"]
    /\ UNCHANGED <<retriever, san, asm, flt, ser>>

\* lines 289-311
ScreenOutput(t) ==
    /\ turn[t].pc = "screening_out"
    /\ LET result == OutputScreeningOf[turn[t].chunks]
       IN  IF result.blocked
           THEN \E k \in 1..Len(responses_output_blocked) :
                    turn' = [turn EXCEPT ![t] = OutputBlocked(turn[t], result, k)]
           ELSE turn' = [turn EXCEPT ![t] = OutputPassed(turn[t], result)]
    /\ UNCHANGED <<retriever, memory, san, asm, flt, ser>>

Init ==
    /\ retriever = [s \in Sessions |-> "unset"]
    /\ memory = [s \in Sessions |-> <<>>]
    /\ turn = [t \in Turns |-> IdleTurn]
    /\ san = IdleSan
    /\ asm = IdleAsm
    /\ flt = IdleFlt
    /\ ser = IdleSer

Next ==
    \/ \E s \in Sessions : ChatStart(s)
    \/ \E t \in Turns, s \in Sessions, m \in Messages : StartTurn(t, s, m)
    \/ \E t \in Turns : ChainStart(t)
    \/ \E t \in Turns : StreamChunk(t)
    \/ \E t \in Turns : StreamFail(t)
    \/ \E t \in Turns : StreamEnd(t)
    \/ \E t \in Turns : ScreenOutput(t)

Spec == Init /\ [][Next]_vars

(***************************************************************************)
(* The sanitizer as a function: applied to a text, and to its own output.  *)
(* A text is a sequence of at most MaxPieces pieces.                       *)
(***************************************************************************)
MaxPieces == 5

Pieces == {
    <<"c", "v", "v", " ">>,
    <<"4", "1", "1", "1">>,
    <<"4", "1", "1", "1", " ">>,
    <<"4", "1", "1", "1", "-">>,
    <<"1", "2", "3", "4", "5", "6", "7", "8", "9", "0", "1", "2", "3", "4", "5", "6", "7">>
}

SanTexts == {Concat(p) : p \in UNION {[1..n -> Pieces] : n \in 0..MaxPieces}}

SanitizeOnce ==
    /\ san.passes = 0
    /\ san' = [san EXCEPT !.passes = 1, !.once = sanitize_financial_data(san.text)]
    /\ UNCHANGED <<retriever, memory, turn, asm, flt, ser>>

SanitizeAgain ==
    /\ san.passes = 1
    /\ san' = [san EXCEPT !.passes = 2, !.twice = sanitize_financial_data(san.once)]
    /\ UNCHANGED <<retriever, memory, turn, asm, flt, ser>>

InitSanitize ==
    /\ retriever = [s \in Sessions |-> "unset"]
    /\ memory = [s \in Sessions |-> <<>>]
    /\ turn = [t \in Turns |-> IdleTurn]
    /\ san \in {[IdleSan EXCEPT !.text = x] : x \in SanTexts}
    /\ asm = IdleAsm
    /\ flt = IdleFlt
    /\ ser = IdleSer

NextSanitize == SanitizeOnce \/ SanitizeAgain

SpecSanitize == InitSanitize /\ [][NextSanitize]_vars

(***************************************************************************)
(* sanitize_financial_data applied to texts with labelled security codes.  *)
(***************************************************************************)
\* pieces in one text
MaxCvvPieces == 4

CvvPieces == {
    <<"C", "V", "V", ":", " ">>,
    <<"c", "ó", "d", "i", "g", "o", " ">>,
    <<"c", "v", "c">>,
    <<"1", "2", "3">>,
    <<"4", "1", "1", "1">>,
    <<"9">>,
    <<" ">>
}

CvvTexts == {Concat(p) : p \in UNION {[1..n -> CvvPieces] : n \in 0..MaxCvvPieces}}

InitCvv ==
    /\ retriever = [s \in Sessions |-> "unset"]
    /\ memory = [s \in Sessions |-> <<>>]
    /\ turn = [t \in Turns |-> IdleTurn]
    /\ san \in {[IdleSan EXCEPT !.text = x] : x \in CvvTexts}
    /\ asm = IdleAsm
    /\ flt = IdleFlt
    /\ ser = IdleSer

SpecCvv == InitCvv /\ [][NextSanitize]_vars

(***************************************************************************)
(* The content filter applied to one text: check_input and check_output.   *)
(***************************************************************************)
\* pieces in one text
MaxWords == 3

FilterPieces == {
    <<"H", "A", "C", "K", "E", "A", "R", " ">>,
    <<"R", "o", "b", "a", "r", " ">>,
    <<"c", "u", "e", "n", "t", "a", " ", "d", "e", " ", "a", "n", "a", " ">>,
    <<"E", "v", "i", "t", "a", "r", " ", " ", "p", "a", "g", "a", "r", " ", "t", "r", "i", "b", "u", "t", "o", "s", " ">>,
    <<"d", "i", "n", "e", "r", "o", " ", "f", "á", "c", "i", "l", " ">>,
    <<"E", "v", "a", "d", "e", " ", "i", "m", "p", "u", "e", "s", "t", "o", "s", " ">>,
    <<"e", "s", "q", "u", "i", "v", "a", " ", "S", "B", "S", " ">>,
    <<"h", "o", "l", "a", " ">>
}

FilterTexts == {Concat(p) : p \in UNION {[1..n -> FilterPieces] : n \in 0..MaxWords}}

CheckInput ==
    /\ flt.input = "unset"
    /\ flt' = [flt EXCEPT !.input = "done", !.check_in = check_input(flt.text)]
    /\ UNCHANGED <<retriever, memory, turn, san, asm, ser>>

CheckOutput ==
    /\ flt.output = "unset"
    /\ flt' = [flt EXCEPT !.output = "done", !.check_out = check_output(flt.text)]
    /\ UNCHANGED <<retriever, memory, turn, san, asm, ser>>

InitFilter ==
    /\ retriever = [s \in Sessions |-> "unset"]
    /\ memory = [s \in Sessions |-> <<>>]
    /\ turn = [t \in Turns |-> IdleTurn]
    /\ san = IdleSan
    /\ asm = IdleAsm
    /\ flt \in {[IdleFlt EXCEPT !.text = x] : x \in FilterTexts}
    /\ ser = IdleSer

NextFilter == CheckInput \/ CheckOutput

SpecFilter == InitFilter /\ [][NextFilter]_vars

(***************************************************************************)
(* One call of BCRPClient.get_series with a list of series codes.          *)
(***************************************************************************)
\* series codes in one call
MaxCodes == 11

CodePool == {TIPO_CAMBIO_PROMEDIO, INFLACION_ANUAL}

CodeLists == UNION {[1..n -> CodePool] : n \in 0..MaxCodes}

CallGetSeries ==
    /\ ser.pc = "ready"
    /\ \E resp \in TurnServiceAnswers :
          ser' = [ser EXCEPT !.pc = "done", !.resp = resp,
                             !.out = get_series(ser.series_codes, resp)]
    /\ UNCHANGED <<retriever, memory, turn, san, asm, flt>>

InitSeries ==
    /\ retriever = [s \in Sessions |-> "unset"]
    /\ memory = [s \in Sessions |-> <<>>]
    /\ turn = [t \in Turns |-> IdleTurn]
    /\ san = IdleSan
    /\ asm = IdleAsm
    /\ flt = IdleFlt
    /\ ser \in {[IdleSer EXCEPT !.pc = "ready", !.series_codes = c] : c \in CodeLists}

NextSeries == CallGetSeries

SpecSeries == InitSeries /\ [][NextSeries]_vars

(***************************************************************************)
(* Two sessions side by side: the turns come from the two sessions in      *)
(* alternation and are processed in any interleaving.                      *)
(***************************************************************************)
TwoSessions == {"s1", "s2"}

\* the session that submits turn t
SessionOf(t) == IF t % 2 = 1 THEN "s1" ELSE "s2"

InitSessions ==
    /\ retriever = [s \in TwoSessions |-> "unset"]
    /\ memory = [s \in TwoSessions |-> <<>>]
    /\ turn = [t \in Turns |-> IdleTurn]
    /\ san = IdleSan
    /\ asm = IdleAsm
    /\ flt = IdleFlt
    /\ ser = IdleSer

NextSessions ==
    \/ \E s \in TwoSessions : ChatStart(s)
    \/ \E t \in Turns, m \in Messages : StartTurn(t, SessionOf(t), m)
    \/ \E t \in Turns : ChainStart(t)
    \/ \E t \in Turns : StreamChunk(t)
    \/ \E t \in Turns : StreamFail(t)
    \/ \E t \in Turns : StreamEnd(t)
    \/ \E t \in Turns : ScreenOutput(t)

SpecSessions == InitSessions /\ [][NextSessions]_vars

(***************************************************************************)
(* One context assembly: a query, a session with or without retriever, and *)
(* what the retriever and the statistics service do.                       *)
(***************************************************************************)
\* periods in one answer of the statistics service
MaxPeriods == 2

PeriodPool == {
    [name |-> "01.Ene.24", hasValues |-> TRUE, values |-> <<"3.70", "3.71", "3.72">>],
    [name |-> "02.Ene.24", hasValues |-> TRUE, values |-> <<"3.80">>],
    [name |-> "03.Ene.24", hasValues |-> FALSE, values |-> <<>>]
}

\* what the statistics service can answer to one request
ServiceAnswers ==
    {ServiceException,
     [kind |-> "json", hasPeriods |-> FALSE, periods |-> <<>>,
      hasSeries |-> FALSE, series |-> <<>>]}
    \cup {[kind |-> "json", hasPeriods |-> TRUE, periods |-> ps,
           hasSeries |-> c.has, series |-> c.names] :
             ps \in UNION {[1..n -> PeriodPool] : n \in 0..MaxPeriods},
             c \in {[has |-> FALSE, names |-> <<>>],
                    [has |-> TRUE, names |-> <<"Inflación">>]}}

\* the answers to the second request of a general query: at most one period
ShortAnswers ==
    {a \in ServiceAnswers : a.kind = "exception" \/ Len(a.periods) <= 1}

AsmQueries == {
    <<"h", "o", "l", "a">>,
    <<"c", "u", "a", "l", " ", "e", "s", " ", "e", "l", " ", "t", "i", "p", "o", " ", "d", "e", " ", "c", "a", "m", "b", "i", "o", " ", "h", "o", "y">>,
    <<"T", "A", "M", "N">>,
    <<"l", "a", " ", "i", "n", "f", "l", "a", "c", "i", "ó", "n">>,
    <<"d", "a", "t", "o", "s", " ", "e", "c", "o", "n", "ó", "m", "i", "c", "o", "s">>,
    <<"D", "o", "l", "a", "r", " ", "e", " ", "I", "n", "f", "l", "a", "c", "i", "o", "n">>,
    <<"I", "P", "C", " ", "y", " ", "t", "a", "s", "a", " ", "r", "e", "f", "e", "r", "e", "n", "c", "i", "a">>
}

AsmHistories == {<<>>, <<[type |-> "human", content |-> <<"h", "i">>, turn |-> 0]>>}

NoRetrieval == [raised |-> FALSE, docs |-> <<>>]

Assemble ==
    /\ asm.pc = "ready"
    /\ \E retrieval \in (IF asm.retriever = "none" THEN {NoRetrieval}
                          ELSE RetrievalOutcomes),
          first \in ServiceAnswers :
          \E second \in (IF detect_economic_query(asm.query) = "general"
                         THEN ShortAnswers ELSE {first}) :
             LET resps == <<first, second>>
             IN  asm' = [asm EXCEPT
                            !.pc = "done",
                            !.retrieval = retrieval,
                            !.resps = resps,
                            !.eco = get_economic_context(asm.query, resps),
                            !.out = AssembleContext(asm.retriever,
                                                    [input |-> asm.query,
                                                     history |-> asm.history],
                                                    retrieval, resps)]
    /\ UNCHANGED <<retriever, memory, turn, san, flt, ser>>

InitContext ==
    /\ retriever = [s \in Sessions |-> "unset"]
    /\ memory = [s \in Sessions |-> <<>>]
    /\ turn = [t \in Turns |-> IdleTurn]
    /\ san = IdleSan
    /\ asm \in {[IdleAsm EXCEPT !.pc = "ready", !.retriever = r,
                                !.query = q, !.history = h] :
                  r \in {"none", "ready"}, q \in AsmQueries, h \in AsmHistories}
    /\ flt = IdleFlt
    /\ ser = IdleSer

NextContext == Assemble

SpecContext == InitContext /\ [][NextContext]_vars

(***************************************************************************)
(* The client methods that read the latest period, applied to one answer   *)
(* of the statistics service.                                              *)
(***************************************************************************)
\* the periods of an answer: three values, fewer than three, an empty values
\* list, no values key
LatestPeriodPool ==
    PeriodPool \cup {
        [name |-> "04.Ene.24", hasValues |-> TRUE, values |-> <<"3.90", "3.91">>],
        [name |-> "05.Ene.24", hasValues |-> TRUE, values |-> <<>>]
    }

\* answers with at most MaxPeriods periods; config.series absent, with one
\* name, or empty
LatestAnswers ==
    {[kind |-> "json", hasPeriods |-> TRUE, periods |-> ps,
      hasSeries |-> c.has, series |-> c.names] :
        ps \in UNION {[1..n -> LatestPeriodPool] : n \in 0..MaxPeriods},
        c \in {[has |-> FALSE, names |-> <<>>],
               [has |-> TRUE, names |-> <<"Inflación">>],
               [has |-> TRUE, names |-> <<>>]}}

CallTipoCambio ==
    /\ ser.pc = "ready"
    /\ ser' = [ser EXCEPT !.pc = "tipo_cambio", !.out = get_tipo_cambio(ser.resp)]
    /\ UNCHANGED <<retriever, memory, turn, san, asm, flt>>

CallTasasInteres ==
    /\ ser.pc = "ready"
    /\ ser' = [ser EXCEPT !.pc = "tasas", !.out = get_tasas_interes(ser.resp)]
    /\ UNCHANGED <<retriever, memory, turn, san, asm, flt>>

CallLatestValue ==
    /\ ser.pc = "ready"
    /\ \E code \in CodePool :
          ser' = [ser EXCEPT !.pc = "latest_value", !.series_codes = <<code>>,
                             !.out = get_latest_value(code, ser.resp)]
    /\ UNCHANGED <<retriever, memory, turn, san, asm, flt>>

InitLatest ==
    /\ retriever = [s \in Sessions |-> "unset"]
    /\ memory = [s \in Sessions |-> <<>>]
    /\ turn = [t \in Turns |-> IdleTurn]
    /\ san = IdleSan
    /\ asm = IdleAsm
    /\ flt = IdleFlt
    /\ ser \in {[IdleSer EXCEPT !.pc = "ready", !.resp = r] : r \in LatestAnswers}

NextLatest == CallTipoCambio \/ CallTasasInteres \/ CallLatestValue

SpecLatest == InitLatest /\ [][NextLatest]_vars

(***************************************************************************)
(* Properties of the turn orchestrator (checked under Spec).               *)
(***************************************************************************)
\* the entries of session s's history that turn t put there
EntriesOf(t, s) == SelectSeq(memory[s], LAMBDA e : e.turn = t)

\* The user-visible surface after the operations ui of a turn: whether the
\* streamed answer is on it (a remove takes it off), its text, and the
\* separate messages sent, in order.
Surface(ui) ==
    LET shows(i) == ui[i].op \in {"stream_token", "send"}
        tokens == SelectSeq(ui, LAMBDA o : o.op = "stream_token")
    IN  [answerShown |-> \E i \in 1..Len(ui) :
                            /\ shows(i)
                            /\ \A j \in (i + 1)..Len(ui) : ui[j].op # "remove",
         answer |-> Concat([i \in 1..Len(tokens) |-> tokens[i].content]),
         messages |-> SelectSeq(ui, LAMBDA o : o.op = "message")]

\* the set of the elements of a sequence
Range(seq) == {seq[i] : i \in 1..Len(seq)}

\* C1: a turn that screening blocked (input or output) has left no entry in
\* its session's history.
C1_BlockedTurnLeavesNoTrace ==
    \A t \in Turns :
        turn[t].pc \in {"blocked_in", "blocked_out"}
            => EntriesOf(t, turn[t].session) = <<>>

\* C2: a turn whose sanitized message check_input blocks ends at once: one
\* message, a disclaimer of responses_input_blocked, is shown; agent.astream
\* is never called, no chunk is streamed, no entry is added to the history.
C2_InputBlockShortCircuits ==
    \A t \in Turns :
        turn[t].check_in.blocked =>
            /\ turn[t].pc = "blocked_in"
            /\ turn[t].astream = 0
            /\ turn[t].chunks = <<>>
            /\ Len(turn[t].ui) = 1
            /\ turn[t].ui[1].op = "message"
            /\ turn[t].ui[1].content[2] \in Range(responses_input_blocked)
            /\ EntriesOf(t, turn[t].session) = <<>>

C2_Witness ==
    \E t \in Turns : turn[t].pc = "blocked_in" /\ turn[t].check_in.blocked

\* a turn that on_message is still processing
InFlight(t) == turn[t].pc \in {"streaming", "generating", "screening_out"}

\* C3: two turns of one session are never in process at the same time.
C3_TurnsSequential ==
    \A t \in Turns, u \in Turns :
        (t # u /\ InFlight(t) /\ InFlight(u))
            => turn[t].session # turn[u].session

\* C4: when check_output blocks the answer of a turn, the streamed message is
\* removed before the one disclaimer (of responses_output_blocked) is sent,
\* msg.send is not called, and the surface shows the disclaimer and not the
\* answer.
C4_OutputBlockRetracts ==
    \A t \in Turns :
        turn[t].check_out.blocked =>
            LET ui == turn[t].ui
                n == Len(ui)
                surface == Surface(ui)
            IN  /\ turn[t].pc = "blocked_out"
                /\ n >= 2
                /\ ui[n].op = "message"
                /\ ui[n].content[2] \in Range(responses_output_blocked)
                /\ ui[n - 1].op = "remove"
                /\ \A i \in 1..(n - 2) : ui[i].op = "stream_token"
                /\ ~surface.answerShown
                /\ surface.messages = <<ui[n]>>

C4_Witness ==
    \E t \in Turns :
        /\ turn[t].pc = "blocked_out"
        /\ turn[t].check_out.blocked
        /\ Len(turn[t].chunks) = 2

\* sanitize_financial_data and check_input of each message, computed once
SanitizedOf == [m \in Messages |-> sanitize_financial_data(m)]

CheckOfSanitized == [m \in Messages |-> check_input(SanitizedOf[m])]

\* C5: the text given to check_input, and to the agent, is the sanitized
\* message; the turn goes on exactly when check_input lets the sanitized
\* message pass.
C5_SanitizeBeforeScreening ==
    \A t \in Turns :
        turn[t].pc # "idle" =>
            /\ turn[t].sanitized = SanitizedOf[turn[t].raw]
            /\ turn[t].screened = SanitizedOf[turn[t].raw]
            /\ turn[t].check_in = CheckOfSanitized[turn[t].raw]
            /\ (turn[t].astream > 0) = ~CheckOfSanitized[turn[t].raw].blocked

\* a turn is generating for a message that sanitizing changed
C5_Witness ==
    \E t \in Turns :
        /\ turn[t].pc = "generating"
        /\ turn[t].screened # turn[t].raw

\* C6: a turn that fails (agent.astream raises, after any number of chunks)
\* has no entry in the history; the step in which it fails changes neither
\* the history nor the session; and the session takes the next message.
C6_FailedTurnAborts ==
    /\ [](\A t \in Turns :
            turn[t].pc = "failed" =>
                /\ EntriesOf(t, turn[t].session) = <<>>
                /\ \A u \in Turns, m \in Messages :
                      (turn[u].pc = "idle" /\ \A v \in Turns : v < u => turn[v].pc # "idle")
                          => ENABLED StartTurn(u, turn[t].session, m))
    /\ [][\A t \in Turns :
            (turn[t].pc # "failed" /\ turn'[t].pc = "failed")
                => (memory' = memory /\ retriever' = retriever)]_vars

\* a turn failed after a chunk and a later turn of the session completed:
\* the history holds the later turn's two entries and nothing else
C6_Witness ==
    \E t \in Turns, u \in Turns :
        /\ t < u
        /\ turn[t].session = turn[u].session
        /\ turn[t].pc = "failed"
        /\ turn[t].error = "generation"
        /\ Len(turn[t].chunks) > 0
        /\ turn[u].pc = "done"
        /\ memory[turn[u].session] = EntriesOf(u, turn[u].session)
        /\ Len(memory[turn[u].session]) = 2

\* C8: no turn fails because retriever.invoke raised.
C8_RetrieverErrorsDoNotPropagate ==
    \A t \in Turns : turn[t].pc = "failed" => turn[t].error # "retriever"

(***************************************************************************)
(* Properties of the economic context (checked under SpecContext).         *)
(***************************************************************************)
\* the statistics service failed: the request raised (network error, timeout,
\* HTTP error) or its answer has no periods
ServiceFailed(resp) ==
    \/ resp.kind = "exception"
    \/ ~(resp.hasPeriods /\ Len(resp.periods) > 0)

\* C7: when every request to the statistics service fails for a query whose
\* intent matched, get_economic_context returns the empty string.
C7_ServiceFailureGivesEmptyContext ==
    ( /\ asm.pc = "done"
      /\ detect_economic_query(asm.query) # "None"
      /\ \A n \in 1..2 : ServiceFailed(asm.resps[n]) )
        => asm.eco.context = <<>>

(***************************************************************************)
(* Properties of sanitize_financial_data (checked under SpecSanitize).     *)
(***************************************************************************)
\* C9: a second pass of sanitize_financial_data changes nothing.
C9_SanitizeIdempotent ==
    san.passes = 2 => san.twice = san.once

\* A word-bounded sequence of 16 digits starts at position i of s, written
\* contiguously or in blocks of 4 separated by single spaces or hyphens: the
\* position after it, or 0.
SixteenEnd(s, i) ==
    LET digits(j, n) == j + n - 1 <= Len(s) /\ \A k \in 0..(n - 1) : IsDigit(s[j + k])
        sep(j) == j <= Len(s) /\ s[j] \in {" ", "-"}
        e == IF digits(i, 16) THEN i + 16
             ELSE IF /\ digits(i, 4) /\ sep(i + 4)
                     /\ digits(i + 5, 4) /\ sep(i + 9)
                     /\ digits(i + 10, 4) /\ sep(i + 14)
                     /\ digits(i + 15, 4)
                  THEN i + 19
                  ELSE 0
    IN  IF /\ e > 0
           /\ (i = 1 \/ ~IsWord(s[i - 1]))
           /\ (e > Len(s) \/ ~IsWord(s[e]))
        THEN e ELSE 0

\* the sequence that starts at position i of s is replaced whole in out: out
\* is what comes before it, sanitized, then the token, then what comes after
\* it, sanitized
ReplacedWhole(s, i, out) ==
    out = sanitize_financial_data(SubSeq(s, 1, i - 1))
            \o TARJETA_OCULTA
            \o sanitize_financial_data(SubSeq(s, SixteenEnd(s, i), Len(s)))

\* a match of the card pattern that starts before position i of s runs into it
Overlapped(s, i) == \E j \in 1..(i - 1) : CardEnd(s, j) > i

\* the positions of s where a word-bounded sequence of 16 digits starts
SixteenStarts(s) == {i \in 1..Len(s) : SixteenEnd(s, i) > 0}

\* C10, as stated: every word-bounded sequence of 16 digits of the text is
\* replaced by [TARJETA-OCULTA], and the output has no such sequence.
C10_EverySequenceReplaced ==
    san.passes >= 1 =>
        /\ \A i \in SixteenStarts(san.text) : ReplacedWhole(san.text, i, san.once)
        /\ SixteenStarts(san.text) # {} => SixteenStarts(san.once) = {}

\* C10, amended: a word-bounded sequence of 16 digits that no earlier match of
\* the card pattern runs into is replaced by [TARJETA-OCULTA]; and when the
\* text has such a sequence, overlapped or not, the output has the token and
\* no word-bounded sequence of 16 digits.
C10_LeftmostSequenceReplaced ==
    san.passes >= 1 =>
        /\ \A i \in SixteenStarts(san.text) :
              ~Overlapped(san.text, i) => ReplacedWhole(san.text, i, san.once)
        /\ SixteenStarts(san.text) # {} =>
              /\ Contains(san.once, TARJETA_OCULTA)
              /\ SixteenStarts(san.once) = {}

\* a text with a sequence in blocks of 4, after other text, has been sanitized
C10_Witness ==
    /\ san.passes >= 1
    /\ \E i \in SixteenStarts(san.text) :
          /\ i > 1
          /\ SixteenEnd(san.text, i) = i + 19
          /\ ~Overlapped(san.text, i)
    /\ Contains(san.once, TARJETA_OCULTA)

\* the matches re.sub replaces in s from position i on, leftmost and
\* non-overlapping, as pairs <<start, position after the match>>
RECURSIVE CardMatches(_, _)
CardMatches(s, i) ==
    LET starts == {j \in i..Len(s) : CardEnd(s, j) > 0}
        j == CHOOSE j \in starts : \A h \in starts : j <= h
    IN  IF starts = {} THEN {}
        ELSE {<<j, CardEnd(s, j)>>} \cup CardMatches(s, CardEnd(s, j))

RECURSIVE AccountMatches(_, _)
AccountMatches(s, i) ==
    LET starts == {j \in i..Len(s) : AccountEnd(s, j) > 0}
        j == CHOOSE j \in starts : \A h \in starts : j <= h
    IN  IF starts = {} THEN {}
        ELSE {<<j, AccountEnd(s, j)>>} \cup AccountMatches(s, AccountEnd(s, j))

RECURSIVE CvvMatches(_, _)
CvvMatches(s, i) ==
    LET starts == {j \in i..Len(s) : CvvEnd(s, j) > 0}
        j == CHOOSE j \in starts : \A h \in starts : j <= h
    IN  IF starts = {} THEN {}
        ELSE {<<j, CvvEnd(s, j)>>} \cup CvvMatches(s, CvvEnd(s, j))

\* the positions of s where the token tok starts
Occurrences(s, tok) == {i \in 1..Len(s) : LitAt(s, i, tok)}

\* the match m leaves every occurrence of the token tok in s untouched
LeavesToken(s, m, tok) ==
    \A i \in Occurrences(s, tok) : m[2] <= i \/ i + Len(tok) <= m[1]

\* C21: the rules apply in the order card, account, CVV without double
\* masking: the output has one [TARJETA-OCULTA] per match of the card pattern
\* in the text and one [CUENTA-OCULTA] per match of the account pattern in
\* what the card rule left (so none for the digits of a card number); no
\* match of the account rule touches a card token, no match of the CVV rule
\* touches a card or account token; a text that is one 16-digit card number
\* becomes exactly [TARJETA-OCULTA].
C21_CardThenAccountThenCvv ==
    san.passes >= 1 =>
        LET s1 == SubCard(san.text, 1)
            s2 == SubAccount(s1, 1)
            cards == CardMatches(san.text, 1)
            accounts == AccountMatches(s1, 1)
            cvvs == CvvMatches(s2, 1)
        IN  /\ Cardinality(Occurrences(san.once, TARJETA_OCULTA)) = Cardinality(cards)
            /\ Cardinality(Occurrences(san.once, CUENTA_OCULTA)) = Cardinality(accounts)
            /\ \A m \in accounts : LeavesToken(s1, m, TARJETA_OCULTA)
            /\ \A m \in cvvs : /\ LeavesToken(s2, m, TARJETA_OCULTA)
                                /\ LeavesToken(s2, m, CUENTA_OCULTA)
            /\ SixteenEnd(san.text, 1) = Len(san.text) + 1 =>
                  san.once = TARJETA_OCULTA

\* a text with a card number of 16 contiguous digits, which the account
\* pattern matches too, and with a longer number that the account rule masks,
\* has been sanitized: one token of each kind
C21_Witness ==
    /\ san.passes >= 1
    /\ \E m \in CardMatches(san.text, 1) : AccountEnd(san.text, m[1]) = m[2]
    /\ Cardinality(Occurrences(san.once, TARJETA_OCULTA)) = 1
    /\ Cardinality(Occurrences(san.once, CUENTA_OCULTA)) = 1

(***************************************************************************)
(* Properties of the masking of security codes (checked under SpecCvv).    *)
(***************************************************************************)
\* one of the labels cvv, código, code, cvc, in any casing, starts at position
\* i of s: its length, or 0
LabelAt(s, i) ==
    LET labels == {<<"c", "v", "v">>, <<"c", "ó", "d", "i", "g", "o">>,
                   <<"c", "o", "d", "e">>, <<"c", "v", "c">>}
        lens == {n \in 3..6 : /\ i + n - 1 <= Len(s)
                              /\ Lower(SubSeq(s, i, i + n - 1)) \in labels}
    IN  IF lens = {} THEN 0 ELSE CHOOSE n \in lens : TRUE

\* the first position at or after j of s that holds neither white space nor a
\* colon
SepEnd(s, j) ==
    LET stops == {k \in j..(Len(s) + 1) :
                     k > Len(s) \/ ~(IsSpace(s[k]) \/ s[k] = ":")}
    IN  CHOOSE k \in stops : \A h \in stops : k <= h

\* the number of digits of s from position j to the first character that is
\* not a digit
ValueLen(s, j) ==
    LET stops == {k \in j..(Len(s) + 1) : k > Len(s) \/ ~IsDigit(s[k])}
    IN  (CHOOSE k \in stops : \A h \in stops : k <= h) - j

\* the positions of s where a label starts that a value of 3 or 4 digits
\* follows, with any separators, or with at least one, between them
LabelledValues(s, minSeps) ==
    {i \in 1..Len(s) :
        /\ LabelAt(s, i) > 0
        /\ SepEnd(s, i + LabelAt(s, i)) - (i + LabelAt(s, i)) >= minSeps
        /\ ValueLen(s, SepEnd(s, i + LabelAt(s, i))) \in {3, 4}}

\* s has no match of the card pattern and none of the account pattern
FreeOfNumbers(s) ==
    \A j \in 1..Len(s) : CardEnd(s, j) = 0 /\ AccountEnd(s, j) = 0

\* the text before the label at position i of s, and the text after its value
BeforeLabel(s, i) == SubSeq(s, 1, i - 1)

AfterValue(s, i) ==
    LET j == SepEnd(s, i + LabelAt(s, i))
    IN  SubSeq(s, j + ValueLen(s, j), Len(s))

\* C11, as stated: where a value of 3 or 4 digits follows a label, only the
\* digits are replaced, by [OCULTO]; the label, the characters between label
\* and value, and the rest of the text stay as they are.
C11_OnlyDigitsReplaced ==
    san.passes >= 1 =>
        \A i \in LabelledValues(san.text, 0) :
            LET s == san.text
                j == SepEnd(s, i + LabelAt(s, i))
            IN  (FreeOfNumbers(s) /\ FreeOfNumbers(BeforeLabel(s, i))
                                  /\ FreeOfNumbers(AfterValue(s, i)))
                => san.once = sanitize_financial_data(BeforeLabel(s, i))
                                \o SubSeq(s, i, j - 1)
                                \o <<"[", "O", "C", "U", "L", "T", "O", "]">>
                                \o sanitize_financial_data(AfterValue(s, i))

\* What the code does in the place of C11: where a value of 3 or 4 digits
\* follows a label after at least one white space or colon, the separators and
\* the digits are replaced by ": [OCULTO]"; the label stays as written and so
\* does the rest of the text (in a text on which the card and the account
\* patterns have no match).  A value that follows its label directly is left.
C11_LabelKeptValueMasked ==
    san.passes >= 1 =>
        \A i \in LabelledValues(san.text, 1) :
            LET s == san.text
            IN  (FreeOfNumbers(s) /\ FreeOfNumbers(BeforeLabel(s, i))
                                  /\ FreeOfNumbers(AfterValue(s, i)))
                => san.once = sanitize_financial_data(BeforeLabel(s, i))
                                \o SubSeq(s, i, i + LabelAt(s, i) - 1)
                                \o <<":", " ", "[", "O", "C", "U", "L", "T", "O", "]">>
                                \o sanitize_financial_data(AfterValue(s, i))

\* a text with two labelled values, the second in upper case after other text,
\* has been sanitized
C11_TwoValuesMasked ==
    /\ san.passes >= 1
    /\ FreeOfNumbers(san.text)
    /\ \E i \in LabelledValues(san.text, 1), j \in LabelledValues(san.text, 1) :
          /\ i < j
          /\ san.text[j] = "C"
    /\ san.once # san.text

(***************************************************************************)
(* Properties of the content filter (checked under SpecFilter).            *)
(***************************************************************************)
\* the keywords of the list palabras, by position, that text contains in any
\* casing
KeywordsIn(text, palabras) ==
    {k \in 1..Len(palabras) : Contains(Lower(text), Lower(palabras[k]))}

\* C12, as stated: for every keyword of palabras_in that the text contains,
\* check_input returns blocked, "palabra" and that keyword.
C12_EveryKeywordReported ==
    flt.input = "done" =>
        \A k \in KeywordsIn(flt.text, palabras_in) :
            flt.check_in = [blocked |-> TRUE, tipo |-> "palabra",
                            detalle |-> palabras_in[k]]

\* C12, amended: for every text that contains a keyword of palabras_in in any
\* casing, check_input returns blocked, "palabra" and the first, in the order
\* of the list, of the keywords it contains.
C12_FirstKeywordReported ==
    flt.input = "done" =>
        LET kw == KeywordsIn(flt.text, palabras_in)
        IN  kw # {} =>
              /\ flt.check_in.blocked
              /\ flt.check_in.tipo = "palabra"
              /\ \E k \in kw :
                    /\ \A h \in kw : k <= h
                    /\ flt.check_in.detalle = palabras_in[k]

\* check_input has run on a text that has two keywords, in upper case the one
\* and capitalized the other
C12_Witness ==
    /\ flt.input = "done"
    /\ KeywordsIn(flt.text, palabras_in) = {1, 2}
    /\ flt.check_in.blocked

\* the patterns of the list patterns, by position, that re.search finds in the
\* lowercased text
PatternsIn(text, patterns) ==
    {p \in 1..Len(patterns) : re_search(patterns[p], Lower(text))}

\* C13: for every text that contains no keyword of palabras_in and in whose
\* lowercased form re.search finds a pattern of patterns_in, check_input
\* returns blocked with kind "patrón".
C13_PatternBlocks ==
    ( /\ flt.input = "done"
      /\ KeywordsIn(flt.text, palabras_in) = {}
      /\ PatternsIn(flt.text, patterns_in) # {} )
        => /\ flt.check_in.blocked
           /\ flt.check_in.tipo = "patrón"

\* check_input has run on a text without keyword in which a pattern is found
\* after other words and before others: a search, not a full match
C13_Witness ==
    /\ flt.input = "done"
    /\ KeywordsIn(flt.text, palabras_in) = {}
    /\ PatternsIn(flt.text, patterns_in) = {4}
    /\ SubSeq(flt.text, 1, 5) = <<"h", "o", "l", "a", " ">>
    /\ SubSeq(flt.text, Len(flt.text) - 4, Len(flt.text)) = <<"h", "o", "l", "a", " ">>
    /\ flt.check_in.tipo = "patrón"

(***************************************************************************)
(* Properties of the intent and of the requests (checked under             *)
(* SpecContext).                                                           *)
(***************************************************************************)
\* some keyword of the list of query_type is in the lowercased message
IntentMatches(message, query_type) ==
    \E p \in 1..Len(EconomicPatterns) :
        /\ EconomicPatterns[p].query_type = query_type
        /\ \E k \in 1..Len(EconomicPatterns[p].keywords) :
              Contains(Lower(message), EconomicPatterns[p].keywords[k])

\* the first intent that matches, in the order exchange rate, interest rates,
\* inflation, general
FirstIntent(message) ==
    IF IntentMatches(message, "tipo_cambio") THEN "tipo_cambio"
    ELSE IF IntentMatches(message, "tasas") THEN "tasas"
    ELSE IF IntentMatches(message, "inflacion") THEN "inflacion"
    ELSE IF IntentMatches(message, "general") THEN "general"
    ELSE "None"

\* C14: detect_economic_query returns the first intent, in the fixed order,
\* one of whose keywords is in the lowercased query; when none matches,
\* get_economic_context returns the empty string and issues no request.
C14_FirstIntentWins ==
    asm.pc = "done" =>
        /\ detect_economic_query(asm.query) = FirstIntent(asm.query)
        /\ FirstIntent(asm.query) = "None" =>
              (asm.eco.context = <<>> /\ asm.eco.requests = <<>>)
        /\ FirstIntent(asm.query) # "None" => asm.eco.requests # <<>>

\* a context has been assembled for a capitalized query that matches the
\* exchange-rate and the inflation intents
C14_Witness ==
    /\ asm.pc = "done"
    /\ IntentMatches(asm.query, "tipo_cambio")
    /\ IntentMatches(asm.query, "inflacion")
    /\ asm.query # Lower(asm.query)
    /\ asm.eco.requests # <<>>

\* C15: for a query of the exchange-rate intent get_economic_context issues
\* exactly one request, for the three exchange-rate series (average, buy,
\* sell) and no other; the context assembly issues that request and no other.
C15_ExchangeRateRequest ==
    (asm.pc = "done" /\ FirstIntent(asm.query) = "tipo_cambio") =>
        /\ Len(asm.eco.requests) = 1
        /\ Len(asm.eco.requests[1]) = 3
        /\ {asm.eco.requests[1][i] : i \in 1..3}
              = {"PD04637PD", "PD04638PD", "PD04639PD"}
        /\ ~asm.out.raised => asm.out.requests = asm.eco.requests

\* a context has been assembled for the query "cual es el tipo de cambio hoy"
C15_Witness ==
    /\ asm.pc = "done"
    /\ asm.query = <<"c", "u", "a", "l", " ", "e", "s", " ", "e", "l", " ", "t", "i", "p", "o", " ", "d", "e", " ", "c", "a", "m", "b", "i", "o", " ", "h", "o", "y">>
    /\ ~asm.out.raised
    /\ asm.eco.requests # <<>>

(***************************************************************************)
(* Property of the batched request (checked under SpecSeries).             *)
(***************************************************************************)
\* C16: get_series with more than 10 codes raises and issues no request; with
\* 10 codes or fewer it does not raise and issues one request, for the codes
\* given, all of them and in their order.
C16_SeriesLimit ==
    ser.pc = "done" =>
        IF Len(ser.series_codes) > 10
        THEN ser.out.raised /\ ser.out.requests = <<>>
        ELSE ~ser.out.raised /\ ser.out.requests = <<ser.series_codes>>

\* get_series has been called with 11 codes
C16_Witness ==
    /\ ser.pc = "done"
    /\ Len(ser.series_codes) = 11
    /\ ser.out.raised

\* C17: without retriever the context assembly does not raise; the context
\* starts with the placeholder sentence; get_economic_context is called (its
\* requests are issued, its text follows the placeholder after an empty line);
\* and when no intent matches the context is the placeholder alone.
C17_PlaceholderWithoutRetriever ==
    (asm.pc = "done" /\ asm.retriever = "none") =>
        LET placeholder == <<"No hay documentos PDF disponibles.">>
        IN  /\ ~asm.out.raised
            /\ asm.out.input = asm.query
            /\ asm.out.history = asm.history
            /\ asm.out.requests = asm.eco.requests
            /\ asm.out.context =
                  IF asm.eco.context = <<>> THEN placeholder
                  ELSE placeholder \o <<"\n\n">> \o asm.eco.context
            /\ FirstIntent(asm.query) = "None" => asm.out.context = placeholder

\* a context has been assembled without retriever for a query of no intent,
\* and the result is the placeholder
C17_Witness ==
    /\ asm.pc = "done"
    /\ asm.retriever = "none"
    /\ FirstIntent(asm.query) = "None"
    /\ asm.history # <<>>
    /\ asm.out.context = <<"No hay documentos PDF disponibles.">>

(***************************************************************************)
(* Property of two sessions (checked under SpecSessions).                  *)
(***************************************************************************)
\* C18: the history of a session holds entries of that session's turns only
\* (so that is all a turn is given to read); a step of a turn leaves the
\* history and the retriever of every other session as they are; and the
\* history of a session changes only when a run of one of its own turns ends,
\* by that turn's two entries.
C18_SessionsIndependent ==
    /\ [](\A s \in TwoSessions : \A i \in 1..Len(memory[s]) :
              turn[memory[s][i].turn].session = s)
    /\ [][\A t \in Turns :
              turn'[t] # turn[t] =>
                  \A s \in TwoSessions \ {turn'[t].session} :
                      memory'[s] = memory[s] /\ retriever'[s] = retriever[s]]_vars
    /\ [][\A s \in TwoSessions :
              memory'[s] # memory[s] =>
                  \E t \in Turns :
                      /\ turn[t].session = s
                      /\ turn[t].pc = "generating"
                      /\ turn'[t].pc = "screening_out"
                      /\ memory'[s] = HistoryAfterRun(memory[s], turn[t], t)]_vars

\* the two sessions each hold the entries of their own turn: the first
\* session's turn was blocked at the output, the second's completed
C18_Witness ==
    /\ turn[1].pc = "blocked_out" /\ turn[1].session = "s1"
    /\ turn[2].pc = "done" /\ turn[2].session = "s2"
    /\ Len(memory["s1"]) = 2 /\ memory["s1"][1].turn = 1
    /\ Len(memory["s2"]) = 2 /\ memory["s2"][1].turn = 2

(***************************************************************************)
(* Property of the audit records (checked under Spec).                     *)
(***************************************************************************)
\* the first 100 characters of the message as typed
First100(raw) == IF Len(raw) <= 100 THEN raw ELSE SubSeq(raw, 1, 100)

\* C19: a turn blocked at the input has emitted one audit record, of type
\* input_blocked; a turn blocked at the output one, of type output_blocked;
\* any other turn none.  The record carries the rule value that check_input or
\* check_output returned and the first 100 characters of the message as typed.
C19_AuditExactlyOnBlock ==
    \A t \in Turns :
        LET a == turn[t].audit
        IN  /\ turn[t].pc = "blocked_in" =>
                  a = <<[event_type |-> "input_blocked",
                         blocked_content |-> turn[t].check_in.detalle,
                         excerpt |-> First100(turn[t].raw)]>>
            /\ turn[t].pc = "blocked_out" =>
                  a = <<[event_type |-> "output_blocked",
                         blocked_content |-> turn[t].check_out.detalle,
                         excerpt |-> First100(turn[t].raw)]>>
            /\ turn[t].pc \notin {"blocked_in", "blocked_out"} => a = <<>>
            /\ \A i \in 1..Len(a) :
                  Len(a[i].excerpt) <= 100 /\ a[i].blocked_content # <<>>

\* a turn with a message of more than 100 characters was blocked at the input
\* and its audit record has an excerpt of 100 characters
C19_Witness ==
    \E t \in Turns :
        /\ turn[t].pc = "blocked_in"
        /\ Len(turn[t].raw) > 100
        /\ Len(turn[t].audit) = 1
        /\ Len(turn[t].audit[1].excerpt) = 100

\* the reference procedure, step by step: the position of the first keyword
\* from k on that lowered contains, or 0
RECURSIVE ScanKeywords(_, _, _)
ScanKeywords(lowered, palabras, k) ==
    IF k > Len(palabras) THEN 0
    ELSE IF Contains(lowered, Lower(palabras[k])) THEN k
    ELSE ScanKeywords(lowered, palabras, k + 1)

\* the position of the first pattern from p on that re.search finds in
\* lowered, or 0
RECURSIVE ScanPatterns(_, _, _)
ScanPatterns(lowered, patterns, p) ==
    IF p > Len(patterns) THEN 0
    ELSE IF re_search(patterns[p], lowered) THEN p
    ELSE ScanPatterns(lowered, patterns, p + 1)

Reference(text, palabras, patterns) ==
    LET lowered == Lower(text)
        k == ScanKeywords(lowered, palabras, 1)
        p == ScanPatterns(lowered, patterns, 1)
    IN  IF k > 0
        THEN [blocked |-> TRUE, tipo |-> "palabra", detalle |-> palabras[k]]
        ELSE IF p > 0
        THEN [blocked |-> TRUE, tipo |-> "patrón", detalle |-> patterns[p].src]
        ELSE [blocked |-> FALSE, tipo |-> "", detalle |-> <<>>]

\* C20: check_input equals the reference procedure over palabras_in and
\* patterns_in, check_output the reference procedure over palabras_out and
\* patterns_out: first keyword in list order, else first pattern in list
\* order, else (False, "", "").
C20_EqualsReference ==
    /\ flt.input = "done" =>
          flt.check_in = Reference(flt.text, palabras_in, patterns_in)
    /\ flt.output = "done" =>
          flt.check_out = Reference(flt.text, palabras_out, patterns_out)

\* both have run on a text that holds, for the input and for the output rule
\* set, a pattern match and a keyword: the keyword is what each returns, and
\* each returns a rule of its own set
C20_Witness ==
    /\ flt.input = "done" /\ flt.output = "done"
    /\ PatternsIn(flt.text, patterns_in) # {}
    /\ flt.check_in.tipo = "palabra"
    /\ PatternsIn(flt.text, patterns_out) # {}
    /\ flt.check_out.tipo = "palabra"
    /\ flt.check_in.detalle # flt.check_out.detalle

(***************************************************************************)
(* The stages of a turn (checked under Spec).                              *)
(***************************************************************************)
\* C22: the entries of a turn are added to the history only after the
\* screening of its output has passed: a turn with an entry in a history has
\* had its answer screened and let through.
C22_CommitAfterOutputScreening ==
    \A t \in Turns, s \in Sessions :
        EntriesOf(t, s) # <<>> => turn[t].pc = "done"

(***************************************************************************)
(* Property of the context assembly (checked under SpecContext).           *)
(***************************************************************************)
\* the document section of an assembled context: the placeholder without
\* retriever, the formatted documents with one
DocumentSection ==
    IF asm.retriever = "none" THEN <<"No hay documentos PDF disponibles.">>
    ELSE format_docs(asm.retrieval.docs)

\* C23: an assembled context is the document section, which is never empty,
\* followed, when the economic context is not empty, by an empty line and the
\* economic context; when the economic context is empty the context is the
\* document section alone, with no separator after it; the query and the
\* history are handed on as they were received.
C23_SectionsJoined ==
    (asm.pc = "done" /\ ~asm.out.raised) =>
        /\ DocumentSection # <<>>
        /\ asm.out.context =
              IF asm.eco.context = <<>> THEN DocumentSection
              ELSE DocumentSection \o <<"\n\n">> \o asm.eco.context
        /\ asm.out.input = asm.query
        /\ asm.out.history = asm.history

\* a context has been assembled from a retrieved document and a non-empty
\* economic context, for a session with a history
C23_Witness ==
    /\ asm.pc = "done"
    /\ asm.retriever = "ready"
    /\ ~asm.out.raised
    /\ asm.retrieval.docs # <<>>
    /\ asm.eco.context # <<>>
    /\ asm.history # <<>>
    /\ asm.out.context =
          format_docs(asm.retrieval.docs) \o <<"\n\n">> \o asm.eco.context

(***************************************************************************)
(* Property of the latest-period readers (checked under SpecLatest).       *)
(***************************************************************************)
\* the value at position i (from 1) of the last period of an answer, or None
\* when the period has no such position
LastValue(resp, i) ==
    LET last == resp.periods[Len(resp.periods)]
    IN  IF last.hasValues /\ Len(last.values) >= i THEN last.values[i]
        ELSE PyNone

\* C24: for an answer with a non-empty list of periods, get_tipo_cambio,
\* get_tasas_interes and get_latest_value return the name of the last period
\* and its values by position, the first value for the first code requested
\* and so on; a position the values list does not have gives None.
C24_LastPeriodByPosition ==
    (ser.pc \in {"tipo_cambio", "tasas", "latest_value"}
        /\ Len(ser.resp.periods) > 0) =>
        LET last == ser.resp.periods[Len(ser.resp.periods)]
            result == ser.out.result
        IN  /\ result.kind # "none"
            /\ IF ser.pc = "latest_value"
               THEN /\ result.periodo = last.name
                    /\ result.codigo = ser.series_codes[1]
                    /\ result.valor = LastValue(ser.resp, 1)
               ELSE /\ result.fecha = last.name
                    /\ result.v1 = LastValue(ser.resp, 1)
                    /\ result.v2 = LastValue(ser.resp, 2)
                    /\ result.v3 = LastValue(ser.resp, 3)

(***************************************************************************)
(* Property of what a turn keeps of the user's message (checked under      *)
(* Spec).                                                                  *)
(***************************************************************************)
\* C25: the text given to the agent for a turn is the sanitized form of the
\* message the user sent, and every human entry of a history holds the
\* sanitized form of the message of the turn that added it; each turn adds at
\* most one human entry.
C25_HistoryHoldsSanitized ==
    /\ \A t \in Turns :
          turn[t].astream > 0 => turn[t].sanitized = SanitizedOf[turn[t].raw]
    /\ \A s \in Sessions : \A i \in 1..Len(memory[s]) :
          LET e == memory[s][i]
          IN  e.type = "human" =>
                /\ turn[e.turn].session = s
                /\ e.content = SanitizedOf[turn[e.turn].raw]
                /\ \A j \in 1..Len(memory[s]) :
                      (memory[s][j].type = "human" /\ memory[s][j].turn = e.turn)
                          => j = i

\* two turns of a session have been saved, and the human entry of each differs
\* from the message as the user typed it
C25_Witness ==
    \E s \in Sessions :
        /\ Len(memory[s]) = 4
        /\ \A i \in 1..Len(memory[s]) :
              memory[s][i].type = "human" =>
                  /\ memory[s][i].content # turn[memory[s][i].turn].raw
                  /\ turn[memory[s][i].turn].pc = "done"

====
